------------------------- MODULE ContractLifeProofs -------------------------
(***************************************************************************)
(* What ContractLife keeps for every set of contracts, messages, keys and  *)
(* values, every clock and every amount of gas.                            *)
(***************************************************************************)
EXTENDS ContractLife, TLAPS

-----------------------------------------------------------------------------
(* The inductive invariant.                                                *)

Stored(c, d) ==
  /\ d.init => d.pubkey # NoKey
  /\ d.init /\ storeTimestampInC4(c) => d.time # Null
  /\ ~(d.init /\ storeTimestampInC4(c)) => d.time = Null
  /\ ~d.init => d.cont = NoCont
  /\ d.cont # NoCont => d.cont.fun \in Functions \ {"getter"}

Counted == \A m \in ExtMsgs :
  /\ done[m] \in {0, 1}
  /\ done[m] = 1 => c4.init /\ (storeTimestampInC4(contract) => m.time <= c4.time)

First == tx.fun = "constructor" /\ ~tx.resumed

\* d may become the data of the account when the transaction ends
Follows(d) ==
  /\ d \in Data
  /\ Stored(contract, d)
  /\ c4.init => d.init
  /\ d.time >= c4.time
  /\ ~c4.init /\ d.init => First

InTx ==
  /\ tx.fun \in Functions
  /\ tx.mode = "ext" => tx.msg \in ExtMsgs /\ Loaded(c7)
  /\ Follows(root)
  /\ saved.yes => Follows(saved.root)
  /\ First => ~c4.init
  /\ tx.resumed => c4.init
  /\ tx.mode = "ext" /\ ~First => c4.init
  /\ Loaded(c7) => (c4.init \/ First) /\ c7.time >= c4.time
  /\ Loaded(c7) /\ storeTimestampInC4(contract) => c7.time # Null
  /\ ~storeTimestampInC4(contract) /\ c4.init => c7.time = Null
  /\ mutability(contract, tx.fun) # "pure" \/ tx.resumed => Loaded(c7)
  /\ tx.fun = "onTickTock" => tx.mode # "ext" /\ (Loaded(c7) \/ mutability(contract, tx.fun) = "pure")
  /\ tx.fun = "getter" /\ tx.mode = "ext" => ~tx.accepted
  /\ tx.mode = "ext" /\ tx.fun # "getter" /\ storeTimestampInC4(contract) =>
       /\ c7.time = tx.msg.time
       /\ c4.time < tx.msg.time
       /\ saved.yes => saved.root.init /\ saved.root.time = tx.msg.time

IInv == /\ TypeOK
        /\ Stored(contract, c4)
        /\ born = (IF c4.init THEN 1 ELSE 0)
        /\ Counted
        /\ tx.mode # "idle" => InTx
-----------------------------------------------------------------------------
(* The ends of a transaction.                                              *)

\* What the account becomes, data r and code c, when the transaction has an effect.
Becomes(c, r) ==
  /\ c \in Contracts /\ r \in Data /\ Stored(c, r)
  /\ c4.init => r.init
  /\ ~c4.init /\ r.init => First
  /\ storeTimestampInC4(c) /\ c4.init => storeTimestampInC4(contract) /\ r.time >= c4.time
  /\ tx.mode = "ext" /\ tx.fun # "getter" /\ storeTimestampInC4(contract) =>
       r.init /\ (storeTimestampInC4(c) => r.time = tx.msg.time)

LEMMA IdleTypes == ASSUME ConstantsAssumption
                   PROVE  /\ Idle \in [mode : Running \cup {"idle"}, msg : ExtMsgs \cup IntMsgs \cup {NoMsg},
                                       fun : Functions \cup {NoFun}, accepted : BOOLEAN, resumed : BOOLEAN,
                                       steps : 0 .. Gas]
                          /\ Empty \in Globals
                          /\ NoCommit \in [yes : BOOLEAN, root : Data]
  BY DEF ConstantsAssumption, Idle, Empty, Globals, NoCommit, NoData, NoCont, Data, Running, Null

\* An end with an effect keeps the counts and the times in step.
LEMMA EndKeeps ==
  ASSUME ConstantsAssumption, IInv, ~Quiet, NEW ok \in BOOLEAN, NEW r, NEW c,
         ok => Becomes(c, r), End(ok, r, c)
  PROVE  IInv'
<1> DEFINE effect == tx.accepted /\ (ok \/ saved.yes)
           D == IF ok THEN r ELSE saved.root
           C == IF ok THEN c ELSE contract
<1> USE DEF Quiet
<1>1. InTx /\ TypeOK /\ Counted /\ Stored(contract, c4) /\ born = (IF c4.init THEN 1 ELSE 0)
  BY ZenonT(40) DEF IInv
<1>2. tx' = Idle /\ c7' = Empty /\ root' = c4' /\ saved' = NoCommit /\ now' = now
  BY ZenonT(40) DEF End
<1>3. tx'.mode = "idle"
  BY ZenonT(40), <1>2 DEF Idle
<1>4. CASE ~effect
  <2>1. c4' = c4 /\ contract' = contract /\ done' = done /\ born' = born
    BY ZenonT(40), <1>4 DEF End
  <2>2. TypeOK'
    BY ZenonT(40), <1>1, <1>2, <2>1, IdleTypes DEF TypeOK
  <2> QED BY ZenonT(40), <1>1, <1>3, <2>1, <2>2 DEF IInv, Counted, Stored, storeTimestampInC4
<1>5. CASE effect
  <2>1. c4' = D /\ contract' = C
    BY ZenonT(40), <1>5 DEF End
  <2>2. Becomes(C, D)
    BY ZenonT(40), <1>1, <1>5 DEF InTx, Follows, Becomes, TypeOK
  <2>3. D \in Data /\ C \in Contracts /\ Stored(C, D)
    BY ZenonT(40), <2>2 DEF Becomes
  <2>4. born' = (IF c4'.init THEN 1 ELSE 0)
    <3>1. born' = IF First /\ c4'.init THEN born + 1 ELSE born
      BY ZenonT(40), <1>5 DEF End, First
    <3> QED BY <1>1, <2>1, <2>2, <3>1 DEF Becomes, InTx, First
  <2>5. /\ done' \in [ExtMsgs -> Nat]
        /\ \A m \in ExtMsgs : \/ done'[m] = done[m]
                               \/ /\ done'[m] = done[m] + 1 /\ m = tx.msg
                                  /\ tx.mode = "ext" /\ storeTimestampInC4(contract)
    BY <1>1, <1>5 DEF End, TypeOK, InTx
  <2>6. TypeOK'
    BY ZenonT(40), <1>1, <1>2, <2>1, <2>3, <2>4, <2>5, IdleTypes DEF TypeOK
  <2>7. ASSUME NEW m \in ExtMsgs
        PROVE  /\ done'[m] \in {0, 1}
               /\ done'[m] = 1 => c4'.init /\ (storeTimestampInC4(contract') => m.time <= c4'.time)
    <3>0. /\ m.time \in Nat /\ c4.time \in Nat \cup {Null} /\ D.time \in Nat \cup {Null} /\ Null \in Int
          /\ c4.init \in BOOLEAN /\ D.init \in BOOLEAN
      BY <1>1, <2>3 DEF ConstantsAssumption, TypeOK, Data, Null
    <3>1. CASE done'[m] = done[m]
      BY <1>1, <2>1, <2>2, <3>0, <3>1 DEF Counted, Becomes, Null
    <3>2. CASE done'[m] = done[m] + 1 /\ m = tx.msg /\ tx.mode = "ext" /\ storeTimestampInC4(contract)
      <4>1. tx.fun # "getter"
        BY ZenonT(40), <1>1, <1>5, <3>2 DEF InTx
      <4>2. c4.time < m.time
        BY ZenonT(40), <1>1, <3>2, <4>1 DEF InTx
      <4>3. done[m] = 0
        BY <1>1, <3>0, <3>2, <4>2 DEF Counted, Null
      <4> QED BY <2>1, <2>2, <3>0, <3>2, <4>1, <4>3 DEF Becomes
    <3> QED BY ZenonT(40), <2>5, <3>1, <3>2
  <2>8. Counted'
    BY ZenonT(40), <2>7 DEF Counted
  <2>9. Stored(contract, c4)'
    BY ZenonT(40), <2>1, <2>3 DEF Stored, storeTimestampInC4
  <2> QED BY ZenonT(40), <1>3, <2>4, <2>6, <2>8, <2>9 DEF IInv
<1> QED BY ZenonT(40), <1>4, <1>5
\* c7 stored for the contract, or for a later version of its code.
LEMMA PackBecomes ==
  ASSUME ConstantsAssumption, IInv, ~Quiet, tx.fun # "getter", NEW c \in Contracts, Storable(c, c7)
  PROVE  /\ Becomes(c, c7_to_c4(c, c7))
         /\ Becomes(c, c7_to_c4_for_await(c, c7, tx.fun))
<1> DEFINE p == c7_to_c4(c, c7)
           w == c7_to_c4_for_await(c, c7, tx.fun)
           Stores(r) == /\ r.init = TRUE /\ r.pubkey = c7.pubkey
                        /\ r.time = IF storeTimestampInC4(c) THEN c7.time ELSE Null
<1> USE DEF Quiet
<1>1. InTx /\ TypeOK /\ Loaded(c7) /\ (storeTimestampInC4(c) => c7.time # Null)
  BY ZenonT(40) DEF IInv, Storable
<1>2. p \in Data /\ w \in Data
  <2>1. c7 \in Globals /\ tx.fun \in Functions
    BY ZenonT(40), <1>1 DEF TypeOK, InTx
  <2>2. p \in Data
    BY ZenonT(40), <2>1 DEF Data, Globals, c7_to_c4, NoCont, Null
  <2>3. [fun |-> tx.fun, msgPubkey |-> c7.msgPubkey] \in [fun : Functions \cup {NoFun}, msgPubkey : Keys \cup {NoKey}]
    BY ZenonT(40), <2>1 DEF Globals
  <2> QED BY ZenonT(40), <2>2, <2>3 DEF Data, c7_to_c4_for_await
<1>3. Stores(p) /\ Stores(w)
  BY ZenonT(40) DEF c7_to_c4, c7_to_c4_for_await
<1>4. /\ p.cont = NoCont
      /\ w.cont.fun \in Functions \ {"getter"}
  BY ZenonT(40), <1>1 DEF c7_to_c4, c7_to_c4_for_await, InTx
<1>5. ASSUME NEW r \in Data, Stores(r), r.cont # NoCont => r.cont.fun \in Functions \ {"getter"}
      PROVE  Becomes(c, r)
  <2>1. Stored(c, r)
    BY ZenonT(40), <1>1, <1>5 DEF Stored, Loaded
  <2>2. ~c4.init => First
    BY ZenonT(40), <1>1 DEF InTx
  <2>3. storeTimestampInC4(c) /\ c4.init => storeTimestampInC4(contract) /\ r.time >= c4.time
    BY ZenonT(40), <1>1, <1>5 DEF InTx
  <2>4. tx.mode = "ext" /\ storeTimestampInC4(contract) => (storeTimestampInC4(c) => r.time = tx.msg.time)
    BY ZenonT(40), <1>1, <1>5 DEF InTx
  <2> HIDE DEF Stores
  <2>5. r.init = TRUE
    BY ZenonT(40), <1>5 DEF Stores
  <2> QED BY ZenonT(40), <2>1, <2>2, <2>3, <2>4, <2>5 DEF Becomes
<1> HIDE DEF Stores
<1> QED BY ZenonT(40), <1>2, <1>3, <1>4, <1>5

\* The data that a transaction may leave is what the account may become.
LEMMA RootBecomes ==
  ASSUME ConstantsAssumption, IInv, ~Quiet, NEW d, Follows(d),
         tx.mode = "ext" /\ tx.fun # "getter" /\ storeTimestampInC4(contract) =>
           (d.init /\ d.time = tx.msg.time)
  PROVE  Becomes(contract, d)
<1>1. contract \in Contracts
  BY ZenonT(40) DEF IInv, TypeOK
<1> QED BY ZenonT(40), <1>1 DEF Follows, Becomes

-----------------------------------------------------------------------------
(* Each way to end.                                                        *)

LEMMA ThrowKeeps == ASSUME ConstantsAssumption, IInv, Throw PROVE IInv'
  BY ZenonT(40), EndKeeps DEF Throw

\* An await or an upgrade that cannot store c7 throws.
LEMMA UpgradeKeeps == ASSUME ConstantsAssumption, IInv, NEW c \in Contracts, Upgrade(c) PROVE IInv'
<1>1. CASE ~Storable(c, c7)
  BY ZenonT(40), <1>1, EndKeeps DEF Upgrade, Step
<1>2. CASE Storable(c, c7)
  <2>1. Becomes(c, c7_to_c4(c, c7))
    BY ZenonT(40), <1>2, PackBecomes DEF Upgrade, Step
  <2> QED BY ZenonT(40), <1>2, <2>1, EndKeeps DEF Upgrade, Step
<1> QED BY ZenonT(40), <1>1, <1>2

LEMMA AwaitKeeps == ASSUME ConstantsAssumption, IInv, Await PROVE IInv'
<1>1. CASE ~Storable(contract, c7)
  BY ZenonT(40), <1>1, EndKeeps DEF Await, Step
<1>2. CASE Storable(contract, c7)
  <2>1. Becomes(contract, c7_to_c4_for_await(contract, c7, tx.fun))
    BY ZenonT(40), <1>2, PackBecomes DEF Await, Step, IInv, TypeOK
  <2> QED BY ZenonT(40), <1>2, <2>1, EndKeeps DEF Await, Step
<1> QED BY ZenonT(40), <1>1, <1>2

LEMMA ExitKeeps == ASSUME ConstantsAssumption, IInv, Exit PROVE IInv'
<1> DEFINE r == IF Loaded(c7) THEN c7_to_c4(contract, c7) ELSE root
<1>0. ~Quiet /\ tx.fun # "getter" /\ InTx /\ TypeOK
  BY ZenonT(40) DEF Exit, Step, IInv, Quiet
<1>1. CASE Loaded(c7)
  <2>1. Storable(contract, c7)
    BY ZenonT(40), <1>0, <1>1 DEF Storable, InTx
  <2> QED BY ZenonT(40), <1>0, <1>1, <2>1, PackBecomes, EndKeeps DEF Exit, TypeOK
<1>2. CASE ~Loaded(c7)
  <2>1. tx.mode # "ext" /\ Follows(root)
    BY ZenonT(40), <1>0, <1>2 DEF InTx
  <2>2. Becomes(contract, root)
    BY ZenonT(40), <1>0, <2>1, RootBecomes
  <2> QED BY ZenonT(40), <1>0, <1>2, <2>2, EndKeeps DEF Exit
<1> QED BY ZenonT(40), <1>1, <1>2

LEMMA ReturnBecomes ==
  ASSUME ConstantsAssumption, IInv, ~Quiet
  PROVE  Becomes(contract, updC4IfItNeeds(contract, tx, c7, root))
<1> DEFINE r == updC4IfItNeeds(contract, tx, c7, root)
<1>0. ~Quiet /\ InTx /\ TypeOK
  BY ZenonT(40) DEF IInv, Quiet
<1>1. r \in {c7_to_c4(contract, c7), root, upd_only_time_in_c4(c7, root)}
  BY ZenonT(40) DEF updC4IfItNeeds
<1>2. CASE r = c7_to_c4(contract, c7) /\ Loaded(c7) /\ tx.fun # "getter"
  <2>1. Storable(contract, c7)
    BY ZenonT(40), <1>0, <1>2 DEF Storable, InTx
  <2> QED BY <1>0, <1>2, <2>1, PackBecomes DEF TypeOK
<1>3. CASE r = root /\ (tx.mode # "ext" \/ tx.fun = "getter")
  BY ZenonT(40), <1>0, <1>3, RootBecomes DEF InTx
<1>4. CASE /\ r = upd_only_time_in_c4(c7, root)
           /\ tx.mode = "ext" /\ tx.fun # "getter" /\ ~Writes /\ storeTimestampInC4(contract)
  <2>1. Loaded(c7) /\ c7.time # Null /\ c7.time >= c4.time /\ c7.time = tx.msg.time /\ Follows(root)
    BY ZenonT(40), <1>0, <1>4 DEF InTx
  <2>2. c4.init /\ root.init
    BY ZenonT(40), <1>0, <1>4, <2>1 DEF InTx, First, Writes, mutability, Mutability, Follows
  <2>3. /\ r \in Data /\ r.init = root.init /\ r.pubkey = root.pubkey /\ r.cont = root.cont /\ r.time = c7.time
    BY ZenonT(40), <1>0, <1>4, <2>1 DEF upd_only_time_in_c4, Follows, Data, TypeOK, Globals
  <2>4. Follows(r)
    BY ZenonT(40), <1>4, <2>1, <2>2, <2>3 DEF Follows, Stored
  <2> QED BY ZenonT(40), <1>0, <1>4, <2>1, <2>2, <2>3, <2>4, RootBecomes
<1>5. \/ r = c7_to_c4(contract, c7) /\ Loaded(c7) /\ tx.fun # "getter"
      \/ r = root /\ (tx.mode # "ext" \/ tx.fun = "getter")
      \/ /\ r = upd_only_time_in_c4(c7, root)
         /\ tx.mode = "ext" /\ tx.fun # "getter" /\ ~Writes /\ storeTimestampInC4(contract)
  <2>1. CASE tx.fun = "getter"
    BY ZenonT(40), <2>1 DEF updC4IfItNeeds
  <2>2. CASE tx.fun = "onTickTock"
    BY ZenonT(40), <1>0, <2>2 DEF updC4IfItNeeds, InTx
  <2>3. CASE tx.fun \notin {"getter", "onTickTock"} /\ Writes
    BY ZenonT(40), <1>0, <2>3 DEF updC4IfItNeeds, InTx, Writes
  <2>4. CASE tx.fun \notin {"getter", "onTickTock"} /\ ~Writes
    BY ZenonT(40), <1>0, <2>4 DEF updC4IfItNeeds, InTx, Writes
  <2> QED BY ZenonT(40), <2>1, <2>2, <2>3, <2>4
<1> QED BY ZenonT(40), <1>2, <1>3, <1>4, <1>5

LEMMA ReturnKeeps == ASSUME ConstantsAssumption, IInv, Return PROVE IInv'
  BY ZenonT(40), ReturnBecomes, EndKeeps DEF Return

-----------------------------------------------------------------------------
(* The body of a function.                                                 *)

\* A step that changes the value or accepts.
LEMMA ValueKeeps ==
  ASSUME ConstantsAssumption, IInv, Step, NEW t, NEW v \in Values,
         t = tx \/ t = [tx EXCEPT !.accepted = TRUE],
         Body(t, [c7 EXCEPT !.x = v], root, saved)
  PROVE  IInv'
<1> USE DEF Quiet
<1>1. InTx /\ TypeOK /\ tx.mode # "idle" /\ tx.fun # "getter" /\ tx.steps < Gas
  BY ZenonT(40) DEF IInv, Step
<1>2. /\ contract' = contract /\ c4' = c4 /\ done' = done /\ born' = born /\ root' = root /\ saved' = saved
      /\ tx'.mode = tx.mode /\ tx'.msg = tx.msg /\ tx'.fun = tx.fun /\ tx'.resumed = tx.resumed
      /\ c7'.pubkey = c7.pubkey /\ c7'.time = c7.time /\ now' = now
  BY ZenonT(40), <1>1 DEF Body, TypeOK, Globals
<1>3. TypeOK'
  <2>1. c7' \in Globals
    BY ZenonT(40), <1>1 DEF TypeOK, Body, Globals
  <2>2. tx' \in [mode : Running \cup {"idle"}, msg : ExtMsgs \cup IntMsgs \cup {NoMsg},
                fun : Functions \cup {NoFun}, accepted : BOOLEAN, resumed : BOOLEAN, steps : 0 .. Gas]
    <3>1. t \in [mode : Running \cup {"idle"}, msg : ExtMsgs \cup IntMsgs \cup {NoMsg},
                 fun : Functions \cup {NoFun}, accepted : BOOLEAN, resumed : BOOLEAN, steps : 0 .. Gas]
      BY ZenonT(40), <1>1 DEF TypeOK
    <3>2. t.steps = tx.steps /\ tx.steps + 1 \in 0 .. Gas
      BY <1>1 DEF TypeOK, ConstantsAssumption
    <3> QED BY ZenonT(40), <3>1, <3>2 DEF Body
  <2> QED BY ZenonT(40), <1>1, <1>2, <2>1, <2>2 DEF TypeOK
<1>4. InTx'
  BY <1>1, <1>2 DEF InTx, Follows, Stored, First, Loaded, Writes, mutability, storeTimestampInC4
<1> QED BY ZenonT(40), <1>2, <1>3, <1>4 DEF IInv, Counted, Stored, storeTimestampInC4

LEMMA AcceptKeeps == ASSUME ConstantsAssumption, IInv, Accept PROVE IInv'
<1>1. c7.x \in Values /\ c7 = [c7 EXCEPT !.x = c7.x]
  BY ZenonT(40) DEF IInv, TypeOK, Globals
<1> QED BY ZenonT(40), <1>1, ValueKeeps DEF Accept

LEMMA AssignKeeps == ASSUME ConstantsAssumption, IInv, NEW v \in Values, Assign(v) PROVE IInv'
  BY ZenonT(40), ValueKeeps DEF Assign

\* A commit of data that the transaction may leave.
LEMMA SaveKeeps ==
  ASSUME ConstantsAssumption, IInv, Step, NEW r, Follows(r), Body(tx, c7, r, [yes |-> TRUE, root |-> r]),
         tx.mode = "ext" /\ storeTimestampInC4(contract) => r.init /\ r.time = tx.msg.time
  PROVE  IInv'
<1> USE DEF Quiet
<1>1. InTx /\ TypeOK /\ tx.mode # "idle" /\ tx.fun # "getter" /\ tx.steps < Gas
  BY ZenonT(40) DEF IInv, Step
<1>2. /\ contract' = contract /\ c4' = c4 /\ done' = done /\ born' = born /\ c7' = c7 /\ now' = now
      /\ tx'.mode = tx.mode /\ tx'.msg = tx.msg /\ tx'.fun = tx.fun /\ tx'.resumed = tx.resumed
      /\ root' = r /\ saved'.root = r /\ saved'.yes = TRUE
  BY ZenonT(40), <1>1 DEF Body, TypeOK
<1>3. TypeOK'
  BY <1>1, <1>2 DEF TypeOK, Body, Follows, ConstantsAssumption
<1>4. Follows(root)' /\ Follows(saved.root)'
  BY ZenonT(40), <1>2 DEF Follows, Stored, First, storeTimestampInC4
<1>5. InTx'
  BY ZenonT(40), <1>1, <1>2, <1>4 DEF InTx, First, Loaded, Writes, mutability, storeTimestampInC4
<1> QED BY ZenonT(40), <1>2, <1>3, <1>5 DEF IInv, Counted, Stored, storeTimestampInC4

LEMMA CommitKeeps == ASSUME ConstantsAssumption, IInv, Commit PROVE IInv'
<1> DEFINE r == c7_to_c4(contract, c7)
<1>1. Step /\ ~Quiet /\ tx.fun # "getter" /\ InTx /\ TypeOK /\ Storable(contract, c7)
  BY ZenonT(40) DEF Commit, Step, IInv, Quiet
<1>2. Becomes(contract, r)
  BY ZenonT(40), <1>1, PackBecomes DEF TypeOK
<1>3. r.time = IF storeTimestampInC4(contract) THEN c7.time ELSE Null
  BY ZenonT(40) DEF c7_to_c4
<1>4. r.time >= c4.time
  <2>1. CASE storeTimestampInC4(contract)
    BY ZenonT(40), <1>1, <1>3, <2>1 DEF InTx, Storable
  <2>2. CASE ~storeTimestampInC4(contract)
    BY SMTT(40), <1>3, <2>2 DEF IInv, Stored, Null
  <2> QED BY ZenonT(40), <2>1, <2>2
<1>5. Follows(r)
  BY ZenonT(40), <1>2, <1>4 DEF Becomes, Follows
<1> QED BY ZenonT(40), <1>1, <1>2, <1>5, SaveKeeps DEF Commit, Becomes, TypeOK

LEMMA RawCommitKeeps == ASSUME ConstantsAssumption, IInv, RawCommit PROVE IInv'
<1>1. Step /\ tx.mode # "ext" /\ Body(tx, c7, root, [yes |-> TRUE, root |-> root])
  BY ZenonT(40) DEF RawCommit
<1>2. Follows(root)
  BY ZenonT(40), <1>1 DEF IInv, InTx, Step, Quiet
<1> QED BY ZenonT(40), <1>1, <1>2, SaveKeeps
-----------------------------------------------------------------------------
(* The beginning of a transaction.                                         *)

\* What a transaction begins with: the function, the data and the globals.
Begins(mode, m, fun, d, g, again) ==
  LET first == fun = "constructor" /\ ~again
      timed == storeTimestampInC4(contract)
  IN  /\ mode \in Running /\ m \in ExtMsgs \cup IntMsgs \cup {NoMsg} /\ fun \in Functions
      /\ mode = "ext" => m \in ExtMsgs /\ Loaded(g)
      /\ d \in Data /\ g \in Globals /\ again \in BOOLEAN
      /\ d.init = c4.init /\ d.time = c4.time /\ d.pubkey = c4.pubkey
      /\ d.cont \in {c4.cont, NoCont}
      /\ first => ~c4.init
      /\ again => c4.init
      /\ mode = "ext" /\ ~first => c4.init
      /\ Loaded(g) => (c4.init \/ first) /\ g.time >= c4.time /\ (timed => g.time # Null)
      /\ ~timed /\ c4.init => g.time = Null
      /\ mutability(contract, fun) # "pure" \/ again => Loaded(g)
      /\ fun = "onTickTock" => mode # "ext" /\ (Loaded(g) \/ mutability(contract, fun) = "pure")
      /\ mode = "ext" /\ fun # "getter" /\ timed => g.time = m.time /\ c4.time < m.time

LEMMA BeginKeeps ==
  ASSUME ConstantsAssumption, IInv, Quiet,
         NEW mode, NEW m, NEW fun, NEW d, NEW g, NEW again,
         Begins(mode, m, fun, d, g, again), Begin(mode, m, fun, d, g, again)
  PROVE  IInv'
<1>1. /\ tx' = [mode |-> mode, msg |-> m, fun |-> fun, accepted |-> mode # "ext", resumed |-> again, steps |-> 0]
      /\ c7' = g /\ root' = d /\ saved' = NoCommit
      /\ contract' = contract /\ now' = now /\ c4' = c4 /\ done' = done /\ born' = born
  BY ZenonT(40) DEF Begin
<1>2. /\ tx'.mode = mode /\ tx'.msg = m /\ tx'.fun = fun /\ tx'.accepted = (mode # "ext") /\ tx'.resumed = again
      /\ saved'.yes = FALSE
  BY ZenonT(40), <1>1 DEF NoCommit
<1>3. TypeOK'
  <2>1. tx' \in [mode : Running \cup {"idle"}, msg : ExtMsgs \cup IntMsgs \cup {NoMsg},
                fun : Functions \cup {NoFun}, accepted : BOOLEAN, resumed : BOOLEAN, steps : 0 .. Gas]
    BY SMTT(40), <1>1 DEF Begins, ConstantsAssumption
  <2>2. d \in Data /\ g \in Globals
    BY ZenonT(40) DEF Begins
  <2> QED BY ZenonT(40), <1>1, <2>1, <2>2, IdleTypes DEF IInv, TypeOK
<1>4. Follows(root)'
  <2>1. Stored(contract, d) /\ d \in Data
    BY ZenonT(40) DEF IInv, Stored, Begins
  <2>2. d.time >= c4.time
    BY DEF IInv, TypeOK, Data, Begins, Null
  <2>3. d.init = c4.init
    BY ZenonT(40) DEF Begins
  <2>4. Stored(contract, root)'
    BY ZenonT(40), <1>1, <2>1 DEF Stored, storeTimestampInC4
  <2>5. (root.time >= c4.time)' /\ root'.init = c4'.init /\ (root \in Data)'
    BY ZenonT(40), <1>1, <2>1, <2>2, <2>3 DEF Data
  <2> QED BY ZenonT(40), <2>4, <2>5 DEF Follows
<1>5. InTx'
  BY ZenonT(40), <1>1, <1>2, <1>4 DEF InTx, Begins, First, Loaded, Writes, mutability, storeTimestampInC4
<1> QED BY ZenonT(40), <1>1, <1>3, <1>5 DEF IInv, Counted, Stored, storeTimestampInC4
\* c4_to_c7 reads what c7_to_c4 wrote.
LEMMA LoadTypes ==
  ASSUME NEW c, NEW d \in Data, NEW g \in Globals
  PROVE  /\ c4_to_c7(c, d, g) \in Globals
         /\ c4_to_c7(c, d, g).pubkey = d.pubkey
         /\ c4_to_c7(c, d, g).flag = g.flag
         /\ c4_to_c7(c, d, g).time = IF storeTimestampInC4(c) THEN d.time ELSE g.time
         /\ c4_to_c7(c, d, g).msgPubkey = g.msgPubkey
  BY ZenonT(40) DEF c4_to_c7, Data, Globals

LEMMA InitTypes ==
  ASSUME NEW c, NEW d \in Data, NEW g \in Globals
  PROVE  /\ c4_to_c7_with_init_storage(c, d, g) \in Globals
         /\ c4_to_c7_with_init_storage(c, d, g).pubkey = d.pubkey
         /\ c4_to_c7_with_init_storage(c, d, g).flag = g.flag
         /\ c4_to_c7_with_init_storage(c, d, g).time =
              IF ~d.init THEN 0 ELSE IF storeTimestampInC4(c) THEN d.time ELSE g.time
         /\ c4_to_c7_with_init_storage(c, d, g).msgPubkey = g.msgPubkey
<1>1. CASE d.init
  BY ZenonT(40), <1>1, LoadTypes DEF c4_to_c7_with_init_storage
<1>2. CASE ~d.init
  BY ZenonT(40), <1>2 DEF c4_to_c7_with_init_storage, Data, Globals
<1> QED BY ZenonT(40), <1>1, <1>2

LEMMA FlagTypes ==
  ASSUME ConstantsAssumption, NEW d \in Data
  PROVE  /\ setCtorFlag(d) \in Globals /\ setCtorFlag(d).flag = d.init
         /\ setCtorFlag(d).pubkey = NoKey /\ setCtorFlag(d).time = Null
  BY ZenonT(40), IdleTypes DEF setCtorFlag, Data, Globals, Empty

LEMMA MainExternalKeeps ==
  ASSUME ConstantsAssumption, IInv, NEW m \in ExtMsgs, MainExternal(m)
  PROVE  IInv'
<1> DEFINE g0 == c4_to_c7_with_init_storage(contract, c4, setCtorFlag(c4))
           gk == withMsgPubkey(contract, m, g0)
           g1 == withTime(contract, m, gk)
           fun == Selected(contract, m.fn)
           g == Started(contract, fun, c4, g1)
           timed == storeTimestampInC4(contract)
<1>1. /\ Quiet /\ Initializable(c4) /\ defaultReplayProtection(contract, m, g0, now)
      /\ MayStart(contract, fun, c4, g1) /\ Begin("ext", m, fun, c4, g, FALSE)
  BY ZenonT(40) DEF MainExternal
<1>2. TypeOK /\ c4 \in Data /\ Stored(contract, c4) /\ m.time \in Nat /\ m.pub \in Keys \cup {NoKey}
  BY ZenonT(40) DEF IInv, TypeOK, ConstantsAssumption
<1>3. /\ g0 \in Globals /\ g0.pubkey = c4.pubkey /\ g0.flag = c4.init
      /\ g0.time = IF ~c4.init THEN 0 ELSE IF timed THEN c4.time ELSE Null
  <2> DEFINE s == setCtorFlag(c4)
  <2>1. s \in Globals /\ s.flag = c4.init /\ s.time = Null
    BY ZenonT(40), <1>2, FlagTypes
  <2> HIDE DEF s
  <2>2. /\ c4_to_c7_with_init_storage(contract, c4, s) \in Globals
        /\ c4_to_c7_with_init_storage(contract, c4, s).pubkey = c4.pubkey
        /\ c4_to_c7_with_init_storage(contract, c4, s).flag = s.flag
        /\ c4_to_c7_with_init_storage(contract, c4, s).time =
             IF ~c4.init THEN 0 ELSE IF timed THEN c4.time ELSE s.time
    <3>1. CASE c4.init
      BY ZenonT(40), <1>2, <2>1, <3>1 DEF c4_to_c7_with_init_storage, c4_to_c7, Data, Globals
    <3>2. CASE ~c4.init
      BY ZenonT(40), <1>2, <2>1, <3>2 DEF c4_to_c7_with_init_storage, Data, Globals
    <3> QED BY ZenonT(40), <3>1, <3>2
  <2> QED BY ZenonT(40), <2>1, <2>2 DEF s
<1>4. c4.pubkey # NoKey
  BY ZenonT(40), <1>1, <1>2 DEF Initializable, Loadable, Stored
<1>5. gk \in Globals /\ gk.pubkey = c4.pubkey /\ gk.flag = c4.init /\ gk.time = g0.time
  <2>1. keyOf(contract, m, g0) \in Keys \cup {NoKey}
    BY ZenonT(40), <1>2, <1>3 DEF keyOf, Globals
  <2> QED BY ZenonT(40), <1>3, <2>1 DEF withMsgPubkey, Globals
<1>6. /\ g1 \in Globals /\ g1.pubkey = c4.pubkey /\ g1.flag = c4.init
      /\ g1.time = IF timed THEN m.time ELSE g0.time
  BY ZenonT(40), <1>2, <1>5 DEF withTime, Globals, storeTimestampInC4
<1>7. timed => g0.time < m.time
  BY ZenonT(40), <1>1 DEF defaultReplayProtection, replay_protection, storeTimestampInC4
<1>8. /\ fun \in Functions \ {"onTickTock"} /\ (fun = "constructor" => ~c4.init)
      /\ (fun # "constructor" => c4.init)
  BY ZenonT(40), <1>1, <1>6 DEF MayStart, Selected, Functions, Mutability, NoFun, Loadable
<1>9. /\ g \in Globals /\ Loaded(g)
      /\ g.time = IF fun = "getter" /\ timed THEN c4.time ELSE g1.time
  <2> HIDE DEF g1, fun
  <2>1. Loaded(g1)
    BY ZenonT(40), <1>4, <1>6 DEF Loaded
  <2>2. CASE fun = "getter"
    <3>1. g = c4_to_c7(contract, c4, g1)
      BY ZenonT(40), <2>2 DEF Started
    <3> HIDE DEF g
    <3> QED BY ZenonT(40), <1>2, <1>4, <1>6, <2>2, <3>1 DEF c4_to_c7, Loaded, Data, Globals, timed
  <2>3. CASE fun # "getter"
    BY ZenonT(40), <1>6, <2>1, <2>3 DEF Started
  <2> QED BY ZenonT(40), <2>2, <2>3
<1>10. /\ c4.time \in Nat \cup {Null} /\ Null = -1
       /\ c4.init /\ timed => c4.time \in Nat
       /\ ~(c4.init /\ timed) => c4.time = Null
  BY ZenonT(40), <1>2 DEF Data, Stored, Null
<1>11. g.time >= c4.time /\ (timed => g.time # Null) /\ (~timed /\ c4.init => g.time = Null)
  <2> HIDE DEF g0, g1, g, fun, timed
  <2> QED BY SMTT(40), <1>2, <1>3, <1>6, <1>7, <1>8, <1>9, <1>10
<1>12. timed => c4.time < m.time
  BY SMTT(40), <1>2, <1>3, <1>7, <1>10
<1> HIDE DEF g, g1, fun
<1>13. Begins("ext", m, fun, c4, g, FALSE)
  BY ZenonT(40), <1>2, <1>6, <1>8, <1>9, <1>11, <1>12 DEF Begins, Running, timed
<1> QED BY ZenonT(40), <1>1, <1>13, BeginKeeps

LEMMA MainInternalKeeps ==
  ASSUME ConstantsAssumption, IInv, NEW m \in IntMsgs, MainInternal(m)
  PROVE  IInv'
<1> DEFINE g0 == setCtorFlag(c4)
           fun == IntTarget(contract, m)
           g == Started(contract, fun, c4, g0)
           timed == storeTimestampInC4(contract)
<1>1. /\ Quiet /\ c4.cont = NoCont
      /\ MayStart(contract, fun, c4, g0) /\ Begin("int", m, fun, c4, g, FALSE)
  BY ZenonT(40) DEF MainInternal
<1>2. TypeOK /\ c4 \in Data /\ Stored(contract, c4)
  BY ZenonT(40) DEF IInv, TypeOK
<1>3. g0 \in Globals /\ g0.flag = c4.init /\ g0.pubkey = NoKey /\ g0.time = Null
  BY ZenonT(40), <1>2, FlagTypes
<1>4. /\ fun \in Functions \ {"onTickTock"} /\ (fun = "constructor" => ~c4.init)
      /\ (fun # "constructor" => c4.init) /\ (fun = "constructor" => c4.pubkey # NoKey)
  BY ZenonT(40), <1>1, <1>3 DEF MayStart, IntTarget, Selected, Functions, Mutability, NoFun, Loadable, Loaded, Initializable
<1>5. /\ c4.time \in Nat \cup {Null} /\ Null = -1
      /\ c4.init /\ timed => c4.time \in Nat
      /\ ~(c4.init /\ timed) => c4.time = Null
      /\ c4.init => c4.pubkey # NoKey
  BY ZenonT(40), <1>2 DEF Data, Stored, Null
<1>6. ~Loaded(g0)
  BY ZenonT(40), <1>3 DEF Loaded
<1>7. CASE fun = "constructor"
  <2>1. g \in Globals /\ g.pubkey = c4.pubkey /\ g.time = 0
    <3>1. mutability(contract, fun) = "nonpayable"
      BY ZenonT(40), <1>7 DEF mutability, Mutability
    <3>2. g = c4_to_c7_with_init_storage(contract, c4, g0)
      BY ZenonT(40), <1>6, <1>7, <3>1 DEF Started
    <3>3. ~c4.init
      BY ZenonT(40), <1>4, <1>7
    <3>4. g0 \in Globals /\ c4 \in Data
      BY ZenonT(40), <1>2, <1>3
    <3> HIDE DEF g, g0
    <3> QED BY ZenonT(40), <3>2, <3>3, <3>4 DEF c4_to_c7_with_init_storage, Data, Globals
  <2>2. Loaded(g) /\ ~c4.init
    BY ZenonT(40), <1>4, <1>7, <2>1 DEF Loaded
  <2> HIDE DEF g, fun
  <2>3. Begins("int", m, fun, c4, g, FALSE)
    BY SMTT(40), <1>2, <1>4, <1>5, <1>7, <2>1, <2>2 DEF Begins, Running, timed
  <2> QED BY ZenonT(40), <1>1, <2>3, BeginKeeps
<1>8. CASE fun # "constructor" /\ (fun = "getter" \/ mutability(contract, fun) # "pure")
  <2>1. g = c4_to_c7(contract, c4, g0)
    BY ZenonT(40), <1>6, <1>8 DEF Started
  <2>2. g \in Globals /\ g.pubkey = c4.pubkey /\ g.time = IF timed THEN c4.time ELSE Null
    BY SMTT(40), <1>2, <1>3, <2>1, LoadTypes
  <2>3. Loaded(g) /\ c4.init
    BY ZenonT(40), <1>4, <1>5, <1>8, <2>2 DEF Loaded
  <2> HIDE DEF g, fun
  <2>4. Begins("int", m, fun, c4, g, FALSE)
    BY SMTT(40), <1>2, <1>4, <1>5, <1>8, <2>2, <2>3 DEF Begins, Running, timed
  <2> QED BY ZenonT(40), <1>1, <2>4, BeginKeeps
<1>9. CASE fun # "constructor" /\ fun # "getter" /\ mutability(contract, fun) = "pure"
  <2>1. g = g0
    BY ZenonT(40), <1>6, <1>9 DEF Started
  <2> HIDE DEF g, fun
  <2>2. Begins("int", m, fun, c4, g, FALSE)
    BY ZenonT(40), <1>2, <1>3, <1>4, <1>6, <1>9, <2>1 DEF Begins, Running, timed
  <2> QED BY ZenonT(40), <1>1, <2>2, BeginKeeps
<1> QED BY ZenonT(40), <1>7, <1>8, <1>9
LEMMA CheckResumeKeeps ==
  ASSUME ConstantsAssumption, IInv, NEW m \in IntMsgs, CheckResume(m)
  PROVE  IInv'
<1> DEFINE d == [c4 EXCEPT !.cont = NoCont]
           g0 == [setCtorFlag(c4) EXCEPT !.msgPubkey = c4.cont.msgPubkey]
           fun == c4.cont.fun
           g == c4_to_c7(contract, d, g0)
           timed == storeTimestampInC4(contract)
<1>1. Quiet /\ c4.cont # NoCont /\ Begin("int", m, fun, d, g, TRUE)
  BY ZenonT(40) DEF CheckResume
<1>2. TypeOK /\ c4 \in Data /\ Stored(contract, c4)
  BY ZenonT(40) DEF IInv, TypeOK
<1>3. fun \in Functions \ {"getter"} /\ c4.init /\ c4.pubkey # NoKey
  BY ZenonT(40), <1>1, <1>2 DEF Stored
<1>4. d \in Data /\ d.init = c4.init /\ d.time = c4.time /\ d.pubkey = c4.pubkey /\ d.cont = NoCont
  BY ZenonT(40), <1>2 DEF Data, NoCont
<1>5. g0 \in Globals /\ g0.time = Null
  <2>1. setCtorFlag(c4) \in Globals /\ setCtorFlag(c4).time = Null
    BY ZenonT(40), <1>2, FlagTypes
  <2>2. c4.cont.msgPubkey \in Keys \cup {NoKey}
    BY ZenonT(40), <1>2 DEF Data
  <2> QED BY ZenonT(40), <2>1, <2>2 DEF Globals
<1>6. g \in Globals /\ g.pubkey = c4.pubkey /\ g.time = IF timed THEN c4.time ELSE Null
  <2> HIDE DEF d, g0
  <2> QED BY <1>4, <1>5, LoadTypes
<1>7. Loaded(g)
  BY ZenonT(40), <1>3, <1>6 DEF Loaded
<1>8. /\ c4.time \in Nat \cup {Null} /\ Null = -1
      /\ timed => c4.time \in Nat
      /\ ~timed => c4.time = Null
  BY ZenonT(40), <1>2, <1>3 DEF Data, Stored, Null
<1> HIDE DEF g, d, fun
<1>9. Begins("int", m, fun, d, g, TRUE)
  BY <1>2, <1>3, <1>4, <1>6, <1>7, <1>8 DEF Begins, Running, timed
<1> QED BY ZenonT(40), <1>1, <1>9, BeginKeeps

LEMMA TickTockKeeps == ASSUME ConstantsAssumption, IInv, TickTock PROVE IInv'
<1> DEFINE pure == contract.handlers = "pure"
           g == IF pure THEN Empty ELSE c4_to_c7(contract, c4, Empty)
           timed == storeTimestampInC4(contract)
<1>1. /\ Quiet /\ (pure \/ Loadable(c4)) /\ Begin("tick", NoMsg, "onTickTock", c4, g, FALSE)
  BY ZenonT(40) DEF TickTock
<1>2. TypeOK /\ c4 \in Data /\ Stored(contract, c4)
  BY ZenonT(40) DEF IInv, TypeOK
<1>3. Empty \in Globals /\ Empty.time = Null /\ ~Loaded(Empty)
  BY ZenonT(40), IdleTypes DEF Empty, Loaded
<1>4. /\ c4.time \in Nat \cup {Null} /\ Null = -1
      /\ c4.init /\ timed => c4.time \in Nat
      /\ ~(c4.init /\ timed) => c4.time = Null
      /\ c4.init => c4.pubkey # NoKey
  BY ZenonT(40), <1>2 DEF Data, Stored, Null
<1>5. mutability(contract, "onTickTock") = contract.handlers
  BY ZenonT(40) DEF mutability, Mutability
<1>6. g \in Globals /\ g.time = IF ~pure /\ timed THEN c4.time ELSE Null
  BY SMTT(40), <1>2, <1>3, LoadTypes
<1>7. (pure => ~Loaded(g)) /\ (~pure => Loaded(g) /\ c4.init)
  BY SMTT(40), <1>1, <1>2, <1>3, <1>4, LoadTypes DEF Loaded, Loadable
<1> HIDE DEF g
<1>8. Begins("tick", NoMsg, "onTickTock", c4, g, FALSE)
  BY SMTT(40), <1>2, <1>4, <1>5, <1>6, <1>7 DEF Begins, Running, Functions, timed, pure
<1> QED BY ZenonT(40), <1>1, <1>8, BeginKeeps

LEMMA TickKeeps == ASSUME ConstantsAssumption, IInv, Tick PROVE IInv'
<1>1. TypeOK'
  BY DEF IInv, TypeOK, Tick, ConstantsAssumption
<1> QED BY ZenonT(40), <1>1 DEF IInv, Tick, Quiet, Counted, Stored, storeTimestampInC4

-----------------------------------------------------------------------------
(* The inductive invariant holds.                                          *)

LEMMA InitKeeps == ASSUME ConstantsAssumption, Init PROVE IInv
<1>1. c4 \in Data /\ c4.init = FALSE /\ c4.time = Null /\ c4.cont = NoCont
  <2>1. NoCont \in [fun : Functions \cup {NoFun}, msgPubkey : Keys \cup {NoKey}] /\ Initial \in Values
    BY ZenonT(40) DEF NoCont, ConstantsAssumption
  <2>2. c4 \in [init : {FALSE}, pubkey : Keys \cup {NoKey}, time : {Null}, x : {Initial}, cont : {NoCont}]
    BY ZenonT(40) DEF Init
  <2> QED BY ZenonT(40), <2>1, <2>2 DEF Data
<1>2. tx.mode = "idle"
  BY ZenonT(40) DEF Init, Idle
<1>3. TypeOK
  BY <1>1, IdleTypes DEF Init, TypeOK, ConstantsAssumption
<1>4. Stored(contract, c4)
  BY ZenonT(40), <1>1 DEF Stored
<1>5. Counted
  BY SMTT(40) DEF Init, Counted
<1> QED BY ZenonT(40), <1>1, <1>2, <1>3, <1>4, <1>5 DEF IInv, Init

LEMMA NextKeeps == ASSUME ConstantsAssumption, IInv, [Next]_vars PROVE IInv'
<1>1. CASE \E m \in ExtMsgs : MainExternal(m)
  BY ZenonT(40), <1>1, MainExternalKeeps
<1>2. CASE \E m \in IntMsgs : MainInternal(m) \/ CheckResume(m)
  BY ZenonT(40), <1>2, MainInternalKeeps, CheckResumeKeeps
<1>3. CASE TickTock \/ Tick
  BY ZenonT(40), <1>3, TickTockKeeps, TickKeeps
<1>4. CASE Accept \/ (\E v \in Values : Assign(v)) \/ Commit \/ RawCommit
  BY ZenonT(40), <1>4, AcceptKeeps, AssignKeeps, CommitKeeps, RawCommitKeeps
<1>5. CASE Throw \/ Return \/ Exit \/ Await \/ \E c \in Contracts : Upgrade(c)
  BY ZenonT(40), <1>5, ThrowKeeps, ReturnKeeps, ExitKeeps, AwaitKeeps, UpgradeKeeps
<1>6. CASE UNCHANGED vars
  BY <1>6 DEF vars, IInv, TypeOK, Counted, Stored, InTx, Follows, First, Loaded, Writes, mutability,
              storeTimestampInC4
<1> QED BY ZenonT(40), <1>1, <1>2, <1>3, <1>4, <1>5, <1>6 DEF Next

\* IInv is an invariant of every behaviour of the contract.
THEOREM Inductive == Spec => []IInv
<1>1. Init => IInv
  BY ZenonT(40), InitKeeps, ConstantsAssumption
<1>2. IInv /\ [Next]_vars => IInv'
  BY ZenonT(40), NextKeeps, ConstantsAssumption
<1> QED BY <1>1, <1>2, PTL DEF Spec

(* However often and in whatever order the network delivers it, an external *)
(* message has an effect at most once while the default replay protection   *)
(* is in force (replay_protection, updC4IfItNeeds, upd_only_time_in_c4).    *)
THEOREM MessagesApplyOnce == Spec => []AtMostOnce
<1>1. IInv => AtMostOnce
  BY SMTT(40) DEF IInv, Counted, AtMostOnce
<1> QED BY <1>1, Inductive, PTL

(* One constructor takes effect, and before every other function            *)
(* (setCtorFlag, checkCtorCalled).                                          *)
THEOREM Constructed == Spec => []ConstructedOnce
<1>1. IInv => ConstructedOnce
  BY ZenonT(40) DEF IInv, Counted, ConstructedOnce
<1> QED BY <1>1, Inductive, PTL

(* A function that is not pure, that an external message called or that an  *)
(* answer resumed has loaded the state variables, so it never stores a null *)
(* (pushC4ToC7IfNeed, updC4IfItNeeds).                                      *)
THEOREM StoresLoaded == Spec => []StoresWhatItLoaded
<1>1. IInv => StoresWhatItLoaded
  BY ZenonT(40) DEF IInv, InTx, StoresWhatItLoaded, Storable, Quiet
<1> QED BY <1>1, Inductive, PTL
(* msg.pubkey() of a running function is a key that signed the message      *)
(* (pushMsgPubkey, checkSignatureAndReadPublicKey).                         *)
THEOREM Signed == Spec => []PubkeySigned
<1>1. Init => PubkeySigned
  BY SMTT(40) DEF Init, Idle, PubkeySigned
<1>2. ASSUME IInv, PubkeySigned, [Next]_vars
      PROVE  PubkeySigned'
  <2>0. ConstantsAssumption /\ TypeOK /\ c4 \in Data
    BY ZenonT(40), <1>2, ConstantsAssumption DEF IInv, TypeOK
  <2>1. CASE \E m \in ExtMsgs : MainExternal(m)
    <3> PICK m \in ExtMsgs : MainExternal(m)
      BY ZenonT(40), <2>1
    <3> DEFINE g0 == c4_to_c7_with_init_storage(contract, c4, setCtorFlag(c4))
               gk == withMsgPubkey(contract, m, g0)
               g1 == withTime(contract, m, gk)
               fun == Selected(contract, m.fn)
    <3>1. /\ signatureHolds(contract, m, g0)
          /\ tx'.msg = m /\ c7' = Started(contract, fun, c4, g1) /\ MayStart(contract, fun, c4, g1)
      BY ZenonT(40) DEF MainExternal, Begin
    <3>2. g0 \in Globals /\ m.time \in Nat /\ m.pub \in Keys \cup {NoKey}
      BY ZenonT(40), <2>0, FlagTypes, InitTypes DEF ConstantsAssumption
    <3> HIDE DEF g0
    <3>3. keyOf(contract, m, g0) \in Keys \cup {NoKey}
      BY ZenonT(40), <3>2 DEF keyOf, Globals
    <3>4. gk \in Globals /\ gk.msgPubkey = IF m.sig # NoKey THEN keyOf(contract, m, g0) ELSE NoKey
      BY ZenonT(40), <3>2, <3>3 DEF withMsgPubkey, Globals
    <3> HIDE DEF gk
    <3>5. g1 \in Globals /\ g1.msgPubkey = gk.msgPubkey
      BY ZenonT(40), <3>2, <3>4 DEF withTime, Globals
    <3> HIDE DEF g1
    <3>6. c7'.msgPubkey = g1.msgPubkey
      <4>1. c4_to_c7(contract, c4, g1).msgPubkey = g1.msgPubkey
        BY ZenonT(40), <2>0, <3>5 DEF c4_to_c7, Globals
      <4>2. c4_to_c7_with_init_storage(contract, c4, g1).msgPubkey = g1.msgPubkey
        BY ZenonT(40), <2>0, <3>5, <4>1 DEF c4_to_c7_with_init_storage, Globals
      <4> QED BY ZenonT(40), <3>1, <4>1, <4>2 DEF Started
    <3> QED BY ZenonT(40), <3>1, <3>4, <3>5, <3>6 DEF PubkeySigned, signatureHolds
  <2>2. CASE (\E m \in IntMsgs : MainInternal(m) \/ CheckResume(m)) \/ TickTock
    BY <2>2 DEF MainInternal, CheckResume, TickTock, Begin, PubkeySigned
  <2>3. CASE Accept \/ (\E v \in Values : Assign(v)) \/ Commit \/ RawCommit
    <3>1. tx'.mode = tx.mode /\ tx'.msg = tx.msg /\ c7'.msgPubkey = c7.msgPubkey
      BY ZenonT(40), <2>0, <2>3 DEF Accept, Assign, Commit, RawCommit, Body, TypeOK, Globals
    <3> QED BY ZenonT(40), <1>2, <3>1 DEF PubkeySigned
  <2>4. CASE Throw \/ Return \/ Exit \/ Await \/ \E c \in Contracts : Upgrade(c)
    <3>1. tx' = Idle
      BY ZenonT(40), <2>4 DEF Throw, Return, Exit, Await, Upgrade, End
    <3> QED BY ZenonT(40), <3>1 DEF PubkeySigned, Idle
  <2>5. CASE Tick \/ UNCHANGED vars
    BY ZenonT(40), <1>2, <2>5 DEF Tick, vars, PubkeySigned
  <2> QED BY ZenonT(40), <1>2, <2>1, <2>2, <2>3, <2>4, <2>5 DEF Next
<1> QED BY <1>1, <1>2, Inductive, PTL DEF Spec

-----------------------------------------------------------------------------
(* What a transaction may do to the account, for the refinement.           *)

\* Data that is not constructed, or left by a reader, has the value of the account.
SameValue(d) == ~d.init \/ (tx.mode = "ext" /\ ~Writes) => d.x = c4.x

Session ==
  /\ SameValue(root)
  /\ saved.yes => SameValue(saved.root)
  /\ tx.mode = "ext" => /\ tx.fun = Selected(contract, tx.msg.fn)
                        /\ c4.cont = NoCont
                        /\ ~tx.resumed
                        /\ ~Writes => c7.x = c4.x
  /\ c4.cont # NoCont =>
       \/ tx.resumed /\ tx.msg \in IntMsgs /\ tx.msg.src = "partner"
       \/ /\ tx.mode = "tick" /\ tx.fun = "onTickTock" /\ mutability(contract, tx.fun) = "pure"
          /\ ~Loaded(c7) /\ root = c4 /\ ~saved.yes

SInv == IInv /\ (tx.mode # "idle" => Session)

LEMMA SessionBegins ==
  ASSUME ConstantsAssumption, IInv, Quiet,
         \/ \E m \in ExtMsgs : MainExternal(m)
         \/ \E m \in IntMsgs : MainInternal(m) \/ CheckResume(m)
         \/ TickTock
  PROVE  Session'
<1>0. c4 \in Data /\ Empty \in Globals /\ ~Loaded(Empty)
  BY ZenonT(40), IdleTypes DEF IInv, TypeOK, Empty, Loaded
<1>1. CASE \E m \in ExtMsgs : MainExternal(m)
  <2> PICK m \in ExtMsgs : MainExternal(m)
    BY ZenonT(40), <1>1
  <2> DEFINE g0 == c4_to_c7_with_init_storage(contract, c4, setCtorFlag(c4))
             g1 == withTime(contract, m, withMsgPubkey(contract, m, g0))
             fun == Selected(contract, m.fn)
  <2>1. /\ Initializable(c4) /\ MayStart(contract, fun, c4, g1)
        /\ Begin("ext", m, fun, c4, Started(contract, fun, c4, g1), FALSE)
    BY ZenonT(40) DEF MainExternal
  <2>2. /\ tx'.mode = "ext" /\ tx'.msg = m /\ tx'.fun = fun /\ tx'.resumed = FALSE
        /\ root' = c4 /\ saved'.yes = FALSE /\ c4' = c4 /\ contract' = contract
        /\ c7' = Started(contract, fun, c4, g1)
    BY ZenonT(40), <2>1 DEF Begin, NoCommit
  <2>3. c4.cont = NoCont
    BY ZenonT(40), <2>1 DEF Initializable, Loadable, IInv, Stored
  <2>4. g0.x = c4.x
    BY ZenonT(40), <1>0, FlagTypes DEF c4_to_c7_with_init_storage, c4_to_c7, Globals, Data
  <2>5. g0 \in Globals
    <3>1. setCtorFlag(c4) \in Globals
      BY ZenonT(40), <1>0, FlagTypes
    <3> QED BY ZenonT(40), <1>0, <3>1, InitTypes
  <2>6. g1.x = c4.x /\ g1 \in Globals
    <3> HIDE DEF g0
    <3>1. m.time \in Nat /\ m.pub \in Keys \cup {NoKey}
      BY ZenonT(40) DEF ConstantsAssumption
    <3>2. keyOf(contract, m, g0) \in Keys \cup {NoKey}
      BY ZenonT(40), <2>5, <3>1 DEF keyOf, Globals
    <3> QED BY ZenonT(40), <2>4, <2>5, <3>1, <3>2 DEF withTime, withMsgPubkey, Globals
  <2>7. c7'.x = c4.x
    <3> HIDE DEF g1
    <3>1. c4_to_c7(contract, c4, g1).x = c4.x
      BY ZenonT(40), <1>0, <2>6 DEF c4_to_c7, Globals
    <3>2. c4_to_c7_with_init_storage(contract, c4, g1).x = c4.x
      BY ZenonT(40), <1>0, <2>6, <3>1 DEF c4_to_c7_with_init_storage, Globals
    <3> QED BY ZenonT(40), <2>2, <2>6, <3>1, <3>2 DEF Started
  <2> HIDE DEF fun
  <2> QED BY ZenonT(40), <2>2, <2>3, <2>7 DEF Session, SameValue, fun
<1>2. CASE \E m \in IntMsgs : MainInternal(m)
  <2> PICK m \in IntMsgs : MainInternal(m)
    BY ZenonT(40), <1>2
  <2>1. /\ tx'.mode = "int" /\ root' = c4 /\ saved'.yes = FALSE /\ c4' = c4 /\ c4.cont = NoCont
    BY ZenonT(40) DEF MainInternal, Begin, NoCommit
  <2> QED BY ZenonT(40), <2>1 DEF Session, SameValue
<1>3. CASE \E m \in IntMsgs : CheckResume(m)
  <2> PICK m \in IntMsgs : CheckResume(m)
    BY ZenonT(40), <1>3
  <2>1. /\ tx'.mode = "int" /\ root' = [c4 EXCEPT !.cont = NoCont] /\ saved'.yes = FALSE /\ c4' = c4
        /\ tx'.resumed = TRUE /\ tx'.msg = m /\ m.src = "partner"
    BY ZenonT(40) DEF CheckResume, Begin, NoCommit
  <2>2. root'.x = c4.x
    BY ZenonT(40), <1>0, <2>1 DEF Data
  <2> QED BY ZenonT(40), <2>1, <2>2 DEF Session, SameValue
<1>4. CASE TickTock
  <2>1. /\ tx'.mode = "tick" /\ tx'.fun = "onTickTock" /\ root' = c4 /\ saved'.yes = FALSE /\ c4' = c4
        /\ contract' = contract
        /\ c4.cont # NoCont => contract.handlers = "pure" /\ c7' = Empty
    BY ZenonT(40), <1>4 DEF TickTock, Begin, NoCommit, Loadable
  <2>2. mutability(contract, "onTickTock") = contract.handlers
    BY ZenonT(40) DEF mutability, Mutability
  <2> QED BY ZenonT(40), <1>0, <2>1, <2>2 DEF Session, SameValue
<1> QED BY ZenonT(40), <1>1, <1>2, <1>3, <1>4

LEMMA SessionGoesOn ==
  ASSUME ConstantsAssumption, SInv, Accept \/ (\E v \in Values : Assign(v)) \/ Commit \/ RawCommit
  PROVE  Session'
<1>1. TypeOK /\ Session /\ InTx /\ tx.mode # "idle"
  BY ZenonT(40) DEF SInv, IInv, Accept, Assign, Commit, RawCommit, Step, Quiet
<1>2. /\ contract' = contract /\ c4' = c4 /\ tx'.mode = tx.mode /\ tx'.msg = tx.msg /\ tx'.fun = tx.fun
      /\ tx'.resumed = tx.resumed
  BY ZenonT(40), <1>1 DEF Accept, Assign, Commit, RawCommit, Body, TypeOK
<1>3. CASE Accept
  <2>1. c7' = c7 /\ root' = root /\ saved' = saved
    BY ZenonT(40), <1>3 DEF Accept, Body
  <2> QED BY ZenonT(40), <1>1, <1>2, <2>1 DEF Session, SameValue, Writes, mutability
<1>4. CASE \E v \in Values : Assign(v)
  <2>1. root' = root /\ saved' = saved /\ c7'.pubkey = c7.pubkey /\ Writes
    BY ZenonT(40), <1>1, <1>4 DEF Assign, Body, TypeOK, Globals
  <2> QED BY ZenonT(40), <1>1, <1>2, <2>1 DEF Session, SameValue, Writes, mutability
<1>5. CASE Commit
  <2>1. /\ root'.init = TRUE /\ saved'.root = root' /\ c7' = c7 /\ Writes
    BY ZenonT(40), <1>5 DEF Commit, Body, c7_to_c4
  <2> QED BY ZenonT(40), <1>1, <1>2, <2>1 DEF Session, SameValue, Writes, mutability
<1>6. CASE RawCommit
  <2>1. /\ root' = root /\ saved'.root = root /\ c7' = c7 /\ Writes
    BY ZenonT(40), <1>6 DEF RawCommit, Body
  <2> QED BY ZenonT(40), <1>1, <1>2, <2>1 DEF Session, SameValue, Writes, mutability
<1> QED BY ZenonT(40), <1>3, <1>4, <1>5, <1>6

\* The transaction ends with data r, or goes back to its last commit.
Ends == Throw \/ Return \/ Exit \/ Await \/ \E c \in Contracts : Upgrade(c)

LEMMA SessionKeeps == ASSUME ConstantsAssumption, SInv, [Next]_vars PROVE SInv'
<1>1. IInv'
  BY ZenonT(40), NextKeeps DEF SInv
<1>2. CASE \/ \E m \in ExtMsgs : MainExternal(m)
           \/ \E m \in IntMsgs : MainInternal(m) \/ CheckResume(m)
           \/ TickTock
  BY ZenonT(40), <1>1, <1>2, SessionBegins DEF SInv, MainExternal, MainInternal, CheckResume, TickTock
<1>3. CASE Accept \/ (\E v \in Values : Assign(v)) \/ Commit \/ RawCommit
  BY ZenonT(40), <1>1, <1>3, SessionGoesOn DEF SInv
<1>4. CASE Ends
  <2>1. tx' = Idle
    BY ZenonT(40), <1>4 DEF Ends, Throw, Return, Exit, Await, Upgrade, End
  <2> QED BY ZenonT(40), <1>1, <2>1 DEF SInv, Idle
<1>5. CASE Tick
  BY ZenonT(40), <1>1, <1>5 DEF SInv, Tick, Quiet
<1>6. CASE UNCHANGED vars
  BY ZenonT(40), <1>1, <1>6 DEF SInv, Session, SameValue, Writes, Loaded, vars
<1> QED BY ZenonT(40), <1>2, <1>3, <1>4, <1>5, <1>6 DEF Next, Ends

LEMMA Sessions == Spec => []SInv
<1>1. Init => SInv
  <2>1. Init => IInv
    BY ZenonT(40), InitKeeps, ConstantsAssumption
  <2>2. Init => tx.mode = "idle"
    BY DEF Init, Idle
  <2> QED BY ZenonT(40), <2>1, <2>2 DEF SInv
<1>2. SInv /\ [Next]_vars => SInv'
  BY ZenonT(40), SessionKeeps, ConstantsAssumption
<1> QED BY <1>1, <1>2, PTL DEF Spec
(* While a function waits for an answer, only the answer of the contract it *)
(* called changes the account (check_resume).                               *)
THEOREM AnswerResumes == Spec => OnlyAnswerResumes
<1>1. ASSUME SInv, [Next]_vars, c4.cont # NoCont, c4' # c4
      PROVE  tx.resumed /\ tx.msg \in IntMsgs /\ tx.msg.src = "partner"
  <2>1. Ends
    BY ZenonT(40), <1>1 DEF Next, Ends, vars, MainExternal, MainInternal, CheckResume, TickTock, Begin, Accept, Assign,
                Commit, RawCommit, Body, Tick
  <2>2. ~Quiet /\ Session
    BY ZenonT(40), <1>1, <2>1 DEF Ends, Throw, Return, Exit, Await, Upgrade, Step, SInv, Quiet
  <2>3. ASSUME ~(tx.resumed /\ tx.msg \in IntMsgs /\ tx.msg.src = "partner")
        PROVE  FALSE
    <3>1. /\ tx.mode = "tick" /\ tx.fun = "onTickTock" /\ mutability(contract, tx.fun) = "pure"
          /\ ~Loaded(c7) /\ root = c4 /\ ~saved.yes
      BY ZenonT(40), <1>1, <2>2, <2>3 DEF Session
    <3>2. \A c \in Contracts : ~Storable(c, c7)
      BY ZenonT(40), <3>1 DEF Storable
    <3>3. contract \in Contracts
      BY ZenonT(40), <1>1 DEF SInv, IInv, TypeOK
    <3>4. CASE Throw
      BY ZenonT(40), <1>1, <3>1, <3>4 DEF Throw, End
    <3>5. CASE Return
      <4>1. updC4IfItNeeds(contract, tx, c7, root) = root
        BY ZenonT(40), <3>1 DEF updC4IfItNeeds
      <4> QED BY ZenonT(40), <1>1, <3>1, <3>5, <4>1 DEF Return, End
    <3>6. CASE Exit
      BY ZenonT(40), <1>1, <3>1, <3>6 DEF Exit, End
    <3>7. CASE Await \/ \E c \in Contracts : Upgrade(c)
      <4>1. End(FALSE, root, contract)
        BY ZenonT(40), <3>2, <3>3, <3>7 DEF Await, Upgrade
      <4> QED BY ZenonT(40), <1>1, <3>1, <4>1 DEF End
    <3> QED BY ZenonT(40), <2>1, <3>4, <3>5, <3>6, <3>7 DEF Ends
  <2> QED BY ZenonT(40), <2>3
<1>2. SInv /\ [Next]_vars => [(c4.cont # NoCont /\ c4' # c4) => (tx.resumed /\ tx.msg \in IntMsgs /\ tx.msg.src = "partner")]_vars
  BY ZenonT(40), <1>1
<1> QED BY <1>2, Sessions, PTL DEF Spec, OnlyAnswerResumes

-----------------------------------------------------------------------------
(* ContractLife implements Account.                                        *)

Applied == {m \in ExtMsgs : done[m] > 0}

\* An end with an effect, seen by the senders.
LEMMA EndPromised ==
  ASSUME ConstantsAssumption, SInv, ~Quiet, NEW ok \in BOOLEAN, NEW r, NEW c,
         ok => Becomes(c, r) /\ SameValue(r), End(ok, r, c)
  PROVE  Promise!Next \/ UNCHANGED Promise!vars
<1> DEFINE effect == tx.accepted /\ (ok \/ saved.yes)
           D == IF ok THEN r ELSE saved.root
           C == IF ok THEN c ELSE contract
           counted == tx.mode = "ext" /\ storeTimestampInC4(contract)
<1>1. IInv /\ InTx /\ TypeOK /\ Session /\ Stored(contract, c4) /\ Counted
  BY ZenonT(40) DEF SInv, IInv, Quiet
<1>2. CASE ~effect
  BY ZenonT(40), <1>2 DEF End, Promise!vars
<1>3. CASE effect
  <2>1. c4' = D
    BY ZenonT(40), <1>3 DEF End
  <2>2. Becomes(C, D) /\ SameValue(D)
    BY ZenonT(40), <1>1, <1>3 DEF InTx, Follows, Becomes, TypeOK, Session
  <2>3. D \in Data /\ D.x \in Values /\ D.init \in BOOLEAN /\ c4.init \in BOOLEAN
    BY ZenonT(40), <1>1, <2>2 DEF Becomes, Data, TypeOK
  <2>4. CASE counted
    <3>1. tx.msg \in ExtMsgs /\ tx.fun # "getter" /\ D.init /\ c4.time < tx.msg.time
      BY ZenonT(40), <1>1, <1>3, <2>2, <2>4 DEF InTx, Becomes
    <3>2. done[tx.msg] = 0
      <4>1. tx.msg.time \in Nat /\ c4.time \in Nat \cup {Null}
        BY ZenonT(40), <1>1, <3>1 DEF ConstantsAssumption, TypeOK, Data
      <4>2. ~(tx.msg.time <= c4.time)
        BY SMTT(40), <3>1, <4>1 DEF Null
      <4> QED BY ZenonT(40), <1>1, <2>4, <3>1, <4>2 DEF Counted
    <3>3. done' = [done EXCEPT ![tx.msg] = @ + 1]
      BY ZenonT(40), <1>3, <2>4 DEF End
    <3>4. Applied' = Applied \cup {tx.msg} /\ tx.msg \notin Applied
      BY SMTT(40), <1>1, <3>1, <3>2, <3>3 DEF Applied, TypeOK
    <3>5. tx.fun = Selected(contract, tx.msg.fn) /\ c4.cont = NoCont /\ ~tx.resumed
      BY ZenonT(40), <1>1, <2>4 DEF Session
    <3>6. CASE ~c4.init
      <4>1. tx.msg.fn = "constructor"
        BY ZenonT(40), <1>1, <2>4, <3>5, <3>6 DEF InTx, First, Selected, Mutability, NoFun
      <4> QED BY ZenonT(40), <2>1, <2>3, <3>1, <3>4, <3>6, <4>1 DEF Promise!Next, Promise!Construct, Applied
    <3>7. CASE c4.init
      <4>1. tx.msg.fn # "constructor"
        BY ZenonT(40), <1>1, <3>5, <3>7 DEF InTx, First, Selected, Mutability
      <4>2. Promise!ReadOnly(tx.msg) => D.x = c4.x
        BY ZenonT(40), <2>2, <2>4, <3>5 DEF Promise!ReadOnly, SameValue, Selected, Writes, mutability, Mutability
      <4> QED BY ZenonT(40), <2>1, <2>3, <3>1, <3>4, <3>5, <3>7, <4>1, <4>2 DEF Promise!Next, Promise!Apply, Applied
    <3> QED BY ZenonT(40), <3>6, <3>7
  <2>5. CASE ~counted
    <3>1. done' = done
      BY ZenonT(40), <2>5 DEF End
    <3>2. CASE c4.init
      BY ZenonT(40), <2>1, <2>2, <2>3, <3>1, <3>2 DEF Promise!Next, Promise!Called, Becomes
    <3>3. CASE ~c4.init /\ D.init
      BY ZenonT(40), <2>1, <2>3, <3>1, <3>3 DEF Promise!Next, Promise!Created
    <3>4. CASE ~c4.init /\ ~D.init
      <4>1. D.x = c4.x /\ D.cont = NoCont /\ c4.cont = NoCont
        BY ZenonT(40), <1>1, <2>2, <3>4 DEF SameValue, Becomes, Stored
      <4> QED BY ZenonT(40), <2>1, <2>3, <3>1, <3>4, <4>1 DEF Promise!vars
    <3> QED BY ZenonT(40), <2>3, <3>2, <3>3, <3>4
  <2> QED BY ZenonT(40), <2>4, <2>5
<1> QED BY ZenonT(40), <1>2, <1>3
\* What each way to end leaves has the value that Session promises.
LEMMA StepPromised ==
  ASSUME ConstantsAssumption, SInv, [Next]_vars
  PROVE  Promise!Next \/ UNCHANGED Promise!vars
<1>1. CASE c4' = c4 /\ done' = done
  BY ZenonT(40), <1>1 DEF Promise!vars
<1>2. CASE Ends
  <2>1. ~Quiet /\ Session /\ InTx /\ TypeOK /\ IInv /\ contract \in Contracts
    BY ZenonT(40), <1>2 DEF Ends, Throw, Return, Exit, Await, Upgrade, Step, SInv, IInv, TypeOK, Quiet
  <2>2. ASSUME NEW c \in Contracts, Storable(c, c7), tx.fun # "getter"
        PROVE  /\ Becomes(c, c7_to_c4(c, c7)) /\ SameValue(c7_to_c4(c, c7))
               /\ Becomes(c, c7_to_c4_for_await(c, c7, tx.fun))
               /\ SameValue(c7_to_c4_for_await(c, c7, tx.fun))
    <3>1. /\ c7_to_c4(c, c7).init = TRUE /\ c7_to_c4(c, c7).x = c7.x
          /\ c7_to_c4_for_await(c, c7, tx.fun).init = TRUE /\ c7_to_c4_for_await(c, c7, tx.fun).x = c7.x
      BY ZenonT(40) DEF c7_to_c4, c7_to_c4_for_await
    <3>2. SameValue(c7_to_c4(c, c7)) /\ SameValue(c7_to_c4_for_await(c, c7, tx.fun))
      BY ZenonT(40), <2>1, <3>1 DEF SameValue, Session
    <3> QED BY ZenonT(40), <2>1, <2>2, <3>2, PackBecomes
  <2>3. CASE Throw
    BY ZenonT(40), <2>1, <2>3, EndPromised DEF Throw
  <2>4. CASE Return
    <3> DEFINE r == updC4IfItNeeds(contract, tx, c7, root)
    <3>1. Becomes(contract, r)
      BY ZenonT(40), <2>1, ReturnBecomes
    <3>2. SameValue(r)
      <4>1. (r.init = root.init /\ r.x = root.x) \/ (r.init = TRUE /\ r.x = c7.x)
        <5>1. root \in Data
          BY ZenonT(40), <2>1 DEF TypeOK
        <5>2. c7_to_c4(contract, c7).init = TRUE /\ c7_to_c4(contract, c7).x = c7.x
          BY ZenonT(40) DEF c7_to_c4
        <5>3. /\ upd_only_time_in_c4(c7, root).init = root.init
              /\ upd_only_time_in_c4(c7, root).x = root.x
          BY ZenonT(40), <5>1 DEF upd_only_time_in_c4, Data
        <5>4. r \in {c7_to_c4(contract, c7), root, upd_only_time_in_c4(c7, root)}
          BY ZenonT(40) DEF updC4IfItNeeds
        <5> HIDE DEF r
        <5> QED BY ZenonT(40), <5>2, <5>3, <5>4
      <4> QED BY ZenonT(40), <2>1, <4>1 DEF SameValue, Session
    <3> QED BY ZenonT(40), <2>1, <2>4, <3>1, <3>2, EndPromised DEF Return
  <2>5. CASE Exit
    <3> DEFINE r == IF Loaded(c7) THEN c7_to_c4(contract, c7) ELSE root
    <3>1. CASE Loaded(c7)
      <4>1. Storable(contract, c7) /\ tx.fun # "getter"
        BY ZenonT(40), <2>1, <2>5, <3>1 DEF Storable, InTx, Exit, Step
      <4> QED BY ZenonT(40), <2>1, <2>2, <2>5, <3>1, <4>1, EndPromised DEF Exit
    <3>2. CASE ~Loaded(c7)
      <4>1. Becomes(contract, root) /\ SameValue(root)
        BY ZenonT(40), <2>1, <3>2, RootBecomes DEF InTx, Session
      <4> QED BY ZenonT(40), <2>1, <2>5, <3>2, <4>1, EndPromised DEF Exit
    <3> QED BY ZenonT(40), <3>1, <3>2
  <2>6. CASE Await
    <3>1. CASE ~Storable(contract, c7)
      BY ZenonT(40), <2>1, <2>6, <3>1, EndPromised DEF Await
    <3>2. CASE Storable(contract, c7)
      BY ZenonT(40), <2>1, <2>2, <2>6, <3>2, EndPromised DEF Await, Step
    <3> QED BY ZenonT(40), <3>1, <3>2
  <2>7. CASE \E c \in Contracts : Upgrade(c)
    <3> PICK c \in Contracts : Upgrade(c)
      BY ZenonT(40), <2>7
    <3>1. CASE ~Storable(c, c7)
      BY ZenonT(40), <2>1, <3>1, EndPromised DEF Upgrade
    <3>2. CASE Storable(c, c7)
      BY ZenonT(40), <2>1, <2>2, <3>2, EndPromised DEF Upgrade, Step
    <3> QED BY ZenonT(40), <3>1, <3>2
  <2> QED BY ZenonT(40), <1>2, <2>3, <2>4, <2>5, <2>6, <2>7 DEF Ends
<1>3. (c4' = c4 /\ done' = done) \/ Ends
  BY ZenonT(40) DEF Next, Ends, vars, MainExternal, MainInternal, CheckResume, TickTock, Begin, Accept, Assign,
         Commit, RawCommit, Body, Tick
<1> QED BY ZenonT(40), <1>1, <1>2, <1>3

(* Refinement: what the generated entry points do to the account is what    *)
(* Account promises to those who send messages to it.                       *)
THEOREM Refinement == Spec => KeepsPromise
<1>1. Init => Promise!Init
  <2>1. ASSUME Init
        PROVE  /\ c4.init = FALSE /\ c4.x \in Values /\ (c4.cont # NoCont) = FALSE
               /\ {m \in ExtMsgs : done[m] > 0} = {}
    <3>1. \A m \in ExtMsgs : done[m] = 0
      BY ZenonT(40), <2>1 DEF Init
    <3>2. c4 \in [init : {FALSE}, pubkey : Keys \cup {NoKey}, time : {Null}, x : {Initial}, cont : {NoCont}]
      BY ZenonT(40), <2>1 DEF Init
    <3>3. Initial \in Values
      BY ZenonT(40), ConstantsAssumption
    <3>4. c4.init = FALSE /\ c4.x = Initial /\ c4.cont = NoCont
      BY ZenonT(40), <3>2
    <3> QED BY <3>1, <3>3, <3>4
  <2> QED BY ZenonT(40), <2>1 DEF Promise!Init
<1>2. SInv /\ [Next]_vars => [Promise!Next]_(Promise!vars)
  BY ZenonT(40), StepPromised, ConstantsAssumption
<1> QED BY <1>1, <1>2, Sessions, PTL DEF Spec, KeepsPromise, Promise!Spec
=============================================================================
