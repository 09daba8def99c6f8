---------------------------- MODULE ContractLife ----------------------------
(***************************************************************************)
(* The life of a deployed contract, as the generated entry points make it: *)
(* main_external, main_internal and onTickTock (TVMFunctionCompiler.cpp),  *)
(* the constructor (TVMContractCompiler.cpp) and the macros that move the  *)
(* state variables between the persistent cell c4 and the globals c7.      *)
(*                                                                         *)
(* A transaction reads c4 into c7, runs one function, writes c7 back and   *)
(* ends; an exception takes it back to its last COMMIT.  The network       *)
(* delivers any message at any time and any number of times: it loses,     *)
(* repeats and reorders external messages, and internal messages of other  *)
(* contracts arrive as those contracts like.                               *)
(***************************************************************************)
EXTENDS Integers

CONSTANTS Contracts,  \* the versions of the code
          ExtMsgs,    \* [fn, time, expire, sig, pub]
          IntMsgs,    \* [fn, src, bounced]
          Keys,       \* public keys
          NoKey,
          Values,     \* what the state variables may hold
          Initial,    \* their initial value
          Second,     \* a second, in units of `time` (1000)
          Interval,   \* ReplayProtection::Interval, in units of `time` (1800000)
          MaxNow,     \* bound on the clock
          Gas         \* bound on the steps of a function

Entry == {"constructor", "nonpayable", "view", "pure", "getter",
          "unknown", "zero", "short", "empty", "answer"}
Mutability == {"nonpayable", "view", "pure"}
Null == -1
NoFun == "none"

ASSUME ConstantsAssumption ==
  /\ Contracts \subseteq [pubkey : BOOLEAN, expire : BOOLEAN, afterSignatureCheck : BOOLEAN,
                          manyVariables : BOOLEAN, await : BOOLEAN, handlers : Mutability \cup {NoFun}]
  /\ ExtMsgs \subseteq [fn : Entry, time : Nat, expire : Nat, sig : Keys \cup {NoKey},
                        pub : Keys \cup {NoKey}]
  /\ IntMsgs \subseteq [fn : Entry, src : {"partner", "other"}, bounced : BOOLEAN]
  /\ NoKey \notin Keys
  /\ Initial \in Values
  /\ Second \in Nat \ {0} /\ Interval \in Nat /\ MaxNow \in Nat /\ Gas \in Nat

VARIABLES contract,  \* the code of the account
          now,       \* the clock, in seconds
          c4,        \* the data of the account
          tx,        \* the transaction that runs
          c7,        \* its globals
          root,      \* its register c4
          saved,     \* c4 at its last COMMIT, and whether there was one
          done,      \* history: how often each external message had an effect
          born       \* history: how often a constructor had one

vars == <<contract, now, c4, tx, c7, root, saved, done, born>>

Running == {"ext", "int", "tick"}
Functions == Mutability \cup {"constructor", "getter", "fallback", "receive", "onBounce", "onTickTock"}
Data == [init : BOOLEAN, pubkey : Keys \cup {NoKey}, time : Nat \cup {Null}, x : Values,
         cont : [fun : Functions \cup {NoFun}, msgPubkey : Keys \cup {NoKey}]]
Globals == [pubkey : Keys \cup {NoKey}, time : Nat \cup {Null}, x : Values, flag : BOOLEAN,
            msgPubkey : Keys \cup {NoKey}]
NoMsg == [fn |-> NoFun]
Idle == [mode |-> "idle", msg |-> NoMsg, fun |-> NoFun, accepted |-> FALSE, resumed |-> FALSE, steps |-> 0]
Quiet == tx.mode = "idle"
NoCont == [fun |-> NoFun, msgPubkey |-> NoKey]
NoData == [init |-> FALSE, pubkey |-> NoKey, time |-> Null, x |-> Initial, cont |-> NoCont]
NoCommit == [yes |-> FALSE, root |-> NoData]
Empty == [pubkey |-> NoKey, time |-> Null, x |-> Initial, flag |-> FALSE, msgPubkey |-> NoKey]

-----------------------------------------------------------------------------
(* c4 and c7.                                                              *)

\* hasTimeInAbiHeader() holds of every contract without afterSignatureCheck.
storeTimestampInC4(c) == ~c.afterSignatureCheck

\* was_c4_to_c7_called
Loaded(g) == g.pubkey # NoKey

\* c7_to_c4 stores integers: it throws when a global is still null.
Storable(c, g) == Loaded(g) /\ (storeTimestampInC4(c) => g.time # Null)
c7_to_c4(c, g) == [init |-> TRUE, pubkey |-> g.pubkey,
                   time |-> IF storeTimestampInC4(c) THEN g.time ELSE Null,
                   x |-> g.x, cont |-> NoCont]
c7_to_c4_for_await(c, g, fun) ==
  [c7_to_c4(c, g) EXCEPT !.cont = [fun |-> fun, msgPubkey |-> g.msgPubkey]]
upd_only_time_in_c4(g, d) == [d EXCEPT !.time = g.time]

\* c4_to_c7 fails on the one bit of an empty dictionary, and on the reference that a
\* suspended function leaves.
Loadable(d) == d.init /\ d.cont = NoCont
c4_to_c7OnlyKeys(c, d, g) == [g EXCEPT !.pubkey = d.pubkey, !.time = IF storeTimestampInC4(c) THEN d.time ELSE @]
c4_to_c7(c, d, g) == [g EXCEPT !.pubkey = d.pubkey, !.x = d.x,
                               !.time = IF storeTimestampInC4(c) THEN d.time ELSE @]
\* Before the constructor, the static variables and the key come from the dictionary.
Initializable(d) == IF d.init THEN Loadable(d) ELSE d.pubkey # NoKey
c4_to_c7_with_init_storage(c, d, g) ==
  IF d.init THEN c4_to_c7(c, d, g)
  ELSE [g EXCEPT !.pubkey = d.pubkey, !.time = 0, !.x = d.x]

-----------------------------------------------------------------------------
(* main_external.                                                          *)

setCtorFlag(d) == [Empty EXCEPT !.flag = d.init]

\* pushMsgPubkey
keyOf(c, m, g) == IF c.pubkey /\ m.pub # NoKey THEN m.pub ELSE g.pubkey
\* checkSignatureAndReadPublicKey
signatureOfAccount(c, m, g) == m.sig \in {NoKey, g.pubkey}
signatureHolds(c, m, g) == IF m.sig # NoKey THEN m.sig = keyOf(c, m, g)
                           ELSE ~(c.pubkey /\ m.pub # NoKey)
withMsgPubkey(c, m, g) == [g EXCEPT !.msgPubkey = IF m.sig # NoKey THEN keyOf(c, m, g) ELSE NoKey]

\* The macro replay_protection of the library.
replay_protectionTooNarrow(m, g, t) == g.time < m.time /\ m.time + Interval < t * Second
replay_protection(m, g, t) == g.time < m.time /\ m.time < t * Second + Interval
expire(m, t) == m.expire > t
defaultReplayProtection(c, m, g, t) ==
  c.afterSignatureCheck \/ (replay_protection(m, g, t) /\ (c.expire => expire(m, t)))
withTime(c, m, g) == IF c.afterSignatureCheck THEN g ELSE [g EXCEPT !.time = m.time]

\* callPublicFunctionOrFallback, buildPublicFunctionSelector
Selected(c, fn) == IF fn \in Mutability \cup {"constructor", "getter"} THEN fn
                   ELSE IF c.handlers # NoFun THEN "fallback" ELSE NoFun

mutability(c, fun) == CASE fun \in Mutability -> fun
                        [] fun \in {"fallback", "receive", "onBounce", "onTickTock"} -> c.handlers
                        [] fun = "getter" -> "view"
                        [] OTHER -> "nonpayable"

\* The beginning of a function: its guards, and pushC4ToC7IfNeed.
MayStartAgain(c, fun, d, g) ==
  CASE fun = NoFun -> FALSE
    [] fun = "getter" -> Loadable(d)
    [] OTHER -> (fun = "constructor" \/ g.flag) /\ (Loaded(g) \/ Initializable(d))
MayStart(c, fun, d, g) ==
  CASE fun = NoFun -> FALSE
    [] fun = "constructor" -> ~g.flag /\ (Loaded(g) \/ Initializable(d))
    [] fun = "getter" -> Loadable(d)
    [] OTHER -> g.flag /\ (mutability(c, fun) = "pure" \/ Loaded(g) \/ Loadable(d))
StartedUnloaded(c, fun, d, g) ==
  IF fun = "constructor" /\ ~Loaded(g) THEN c4_to_c7_with_init_storage(c, d, g) ELSE g
Started(c, fun, d, g) ==
  IF fun = "getter" THEN c4_to_c7(c, d, g)
  ELSE IF Loaded(g) \/ mutability(c, fun) = "pure" THEN g
  ELSE IF fun = "constructor" THEN c4_to_c7_with_init_storage(c, d, g)
  ELSE c4_to_c7(c, d, g)

Begin(mode, m, fun, d, g, again) ==
  /\ tx' = [mode |-> mode, msg |-> m, fun |-> fun, accepted |-> mode # "ext", resumed |-> again, steps |-> 0]
  /\ c7' = g
  /\ root' = d
  /\ saved' = NoCommit
  /\ UNCHANGED <<contract, now, c4, done, born>>

MainExternal(m) ==
  LET c == contract
      g0 == c4_to_c7_with_init_storage(c, c4, setCtorFlag(c4))
      g1 == withTime(c, m, withMsgPubkey(c, m, g0))
      fun == Selected(c, m.fn)
  IN  /\ Quiet
      /\ Initializable(c4)
      /\ signatureHolds(c, m, g0)
      /\ defaultReplayProtection(c, m, g0, now)
      /\ m.fn \notin {"empty", "short"}
      /\ MayStart(c, fun, c4, g1)
      /\ Begin("ext", m, fun, c4, Started(c, fun, c4, g1), FALSE)

-----------------------------------------------------------------------------
(* main_internal, onTickTock.                                              *)

\* pushReceiveOrFallback: without receive() a message without function id is a transfer.
IntTarget(c, m) ==
  IF m.bounced THEN IF c.handlers # NoFun THEN "onBounce" ELSE NoFun
  ELSE IF m.fn \in {"empty", "zero"} THEN IF c.handlers # NoFun THEN "receive" ELSE NoFun
  ELSE Selected(c, m.fn)
MainInternal(m) ==
  LET c == contract
      g == setCtorFlag(c4)
      fun == IntTarget(c, m)
  IN  /\ Quiet
      /\ c4.cont = NoCont
      /\ MayStart(c, fun, c4, g)
      /\ Begin("int", m, fun, c4, Started(c, fun, c4, g), FALSE)

\* check_resume: the awaited contract, and only it, continues the suspended function.
CheckResumeByAnyone(m) ==
  LET d == [c4 EXCEPT !.cont = NoCont]
      g == [setCtorFlag(c4) EXCEPT !.msgPubkey = c4.cont.msgPubkey]
  IN  /\ Quiet
      /\ c4.cont # NoCont
      /\ m.fn = "answer" /\ ~m.bounced
      /\ Begin("int", m, c4.cont.fun, d, c4_to_c7(contract, d, g), TRUE)
CheckResume(m) ==
  LET d == [c4 EXCEPT !.cont = NoCont]
      g == [setCtorFlag(c4) EXCEPT !.msgPubkey = c4.cont.msgPubkey]
  IN  /\ Quiet
      /\ c4.cont # NoCont
      /\ m.src = "partner" /\ m.fn = "answer" /\ ~m.bounced
      /\ Begin("int", m, c4.cont.fun, d, c4_to_c7(contract, d, g), TRUE)

TickTock ==
  LET pure == contract.handlers = "pure"
  IN  /\ Quiet
      /\ contract.handlers # NoFun
      /\ pure \/ Loadable(c4)
      /\ Begin("tick", NoMsg, "onTickTock", c4, IF pure THEN Empty ELSE c4_to_c7(contract, c4, Empty), FALSE)

-----------------------------------------------------------------------------
(* The body of a function, and how a transaction ends.                     *)

Step == ~Quiet /\ tx.fun # "getter" /\ tx.steps < Gas
Writes == mutability(contract, tx.fun) = "nonpayable"
Body(t, g, r, s) ==
  /\ tx' = [t EXCEPT !.steps = @ + 1]
  /\ c7' = g /\ root' = r /\ saved' = s
  /\ UNCHANGED <<contract, now, c4, done, born>>

\* tvm.accept
Accept == Step /\ ~tx.accepted /\ Body([tx EXCEPT !.accepted = TRUE], c7, root, saved)
Assign(v) == Step /\ Writes /\ Body(tx, [c7 EXCEPT !.x = v], root, saved)
\* tvm.commit and tvm.rawCommit; the latter is not meant for external messages.
Commit == LET r == c7_to_c4(contract, c7)
          IN  Step /\ Writes /\ Storable(contract, c7) /\ Body(tx, c7, r, [yes |-> TRUE, root |-> r])
RawCommit == Step /\ Writes /\ tx.mode # "ext" /\ Body(tx, c7, root, [yes |-> TRUE, root |-> root])

\* An external message that is not accepted makes no transaction at all.  The code of the
\* account changes with its data.
End(ok, r, c) ==
  LET effect == tx.accepted /\ (ok \/ saved.yes)
  IN  /\ c4' = IF ~effect THEN c4 ELSE IF ok THEN r ELSE saved.root
      /\ contract' = IF effect /\ ok THEN c ELSE contract
      /\ done' = IF effect /\ tx.mode = "ext" /\ storeTimestampInC4(contract)
                 THEN [done EXCEPT ![tx.msg] = @ + 1] ELSE done
      /\ born' = IF effect /\ tx.fun = "constructor" /\ ~tx.resumed /\ c4'.init THEN born + 1 ELSE born
      /\ tx' = Idle /\ c7' = Empty /\ root' = c4' /\ saved' = NoCommit
      /\ UNCHANGED now

\* require(), and every failure of the TVM, out of gas included
Throw == ~Quiet /\ End(FALSE, root, contract)

\* updC4IfItNeeds; a constructor and onTickTock always store
updC4IfNonPayable(c, t, g, d) ==
  IF mutability(c, t.fun) = "nonpayable" THEN c7_to_c4(c, g) ELSE d
updC4IfItNeeds(c, t, g, d) ==
  LET fm == mutability(c, t.fun)
  IN  IF t.fun = "getter" THEN d
      ELSE IF fm = "nonpayable" \/ (t.fun = "onTickTock" /\ fm # "pure") THEN c7_to_c4(c, g)
      ELSE IF t.mode # "ext" THEN d
      ELSE IF storeTimestampInC4(c) /\ c.manyVariables THEN upd_only_time_in_c4(g, d)
      ELSE c7_to_c4(c, g)
Return == ~Quiet /\ End(TRUE, updC4IfItNeeds(contract, tx, c7, root), contract)
\* tvm.exit
Exit == Step /\ End(TRUE, IF Loaded(c7) THEN c7_to_c4(contract, c7) ELSE root, contract)
\* f{...}(...).await: it stores c7 whatever the function is, and throws on a null.
Await == /\ Step /\ contract.await
         /\ IF Storable(contract, c7) THEN End(TRUE, c7_to_c4_for_await(contract, c7, tx.fun), contract)
            ELSE End(FALSE, root, contract)
\* tvm.setcode, tvm.setCurrentCode (both are pure) and onCodeUpgrade, which always stores c7
Upgrade(c) == Step /\ IF Storable(c, c7) THEN End(TRUE, c7_to_c4(c, c7), c)
                      ELSE End(FALSE, root, contract)

-----------------------------------------------------------------------------
(* The system.                                                             *)

Tick == /\ Quiet /\ now < MaxNow
        /\ now' = now + 1
        /\ UNCHANGED <<contract, c4, tx, c7, root, saved, done, born>>

Init == /\ contract \in Contracts
        /\ now = 0
        /\ c4 \in [init : {FALSE}, pubkey : Keys \cup {NoKey}, time : {Null}, x : {Initial}, cont : {NoCont}]
        /\ tx = Idle
        /\ c7 = Empty
        /\ root = c4
        /\ saved = NoCommit
        /\ done = [m \in ExtMsgs |-> 0]
        /\ born = 0

Next == \/ \E m \in ExtMsgs : MainExternal(m)
        \/ \E m \in IntMsgs : MainInternal(m) \/ CheckResume(m)
        \/ TickTock
        \/ Accept \/ \E v \in Values : Assign(v)
        \/ Commit \/ RawCommit
        \/ Throw \/ Return \/ Exit \/ Await \/ \E c \in Contracts : Upgrade(c)
        \/ Tick

Spec == Init /\ [][Next]_vars
-----------------------------------------------------------------------------
(* Properties.                                                             *)

TypeOK ==
  /\ contract \in Contracts
  /\ now \in 0 .. MaxNow
  /\ c4 \in Data /\ root \in Data /\ c7 \in Globals
  /\ tx \in [mode : Running \cup {"idle"}, msg : ExtMsgs \cup IntMsgs \cup {NoMsg},
            fun : Functions \cup {NoFun}, accepted : BOOLEAN, resumed : BOOLEAN, steps : 0 .. Gas]
  /\ saved \in [yes : BOOLEAN, root : Data]
  /\ done \in [ExtMsgs -> Nat] /\ born \in Nat

(* Replay protection (API.md, "Contract execution"): while the default      *)
(* protection is in force an external message has an effect at most once,   *)
(* however often and in whatever order the network delivers it, whatever    *)
(* the functions throw or commit, and across code upgrades.                 *)
AtMostOnce == \A m \in ExtMsgs : done[m] <= 1

(* The constructor takes effect exactly once, before every other function,  *)
(* and nothing makes the account forget it (setCtorFlag, checkCtorCalled,   *)
(* c4ToC7WithMemoryInitAndConstructorProtection).                           *)
ConstructedOnce ==
  /\ born = (IF c4.init THEN 1 ELSE 0)
  /\ ~c4.init => \A m \in ExtMsgs : done[m] = 0

(* msg.pubkey() of a running function, if there is one, is a key that       *)
(* signed the message (pushMsgPubkey, checkSignatureAndReadPublicKey).      *)
PubkeySigned == tx.mode = "ext" /\ c7.msgPubkey # NoKey => tx.msg.sig = c7.msgPubkey

(* c7_to_c4 never meets a null in a function that is not pure, that an      *)
(* external message called or that an answer resumed: whatever it does,     *)
(* return, commit, exit or await, it has loaded what it stores              *)
(* (pushC4ToC7IfNeed, updC4IfItNeeds).  A pure function that an internal    *)
(* message calls loads nothing: its await and its onCodeUpgrade throw.      *)
StoresWhatItLoaded ==
  ~Quiet /\ (mutability(contract, tx.fun) # "pure" \/ tx.mode = "ext" \/ tx.resumed \/ Loaded(c7)) =>
    Storable(contract, c7)

(* While a function waits for an answer, only the answer of the contract it *)
(* called changes the account (check_resume).                               *)
OnlyAnswerResumes == [][(c4.cont # NoCont /\ c4' # c4) => (tx.resumed /\ tx.msg \in IntMsgs /\ tx.msg.src = "partner")]_vars

(* Replay protection never locks a valid message out: delivered again and   *)
(* again to an account that is constructed and not suspended, a signed      *)
(* message takes effect, unless a message of a later time did or it expires.*)
Valid(m) == m.fn = "nonpayable" /\ m.pub = NoKey
Settled(m) == \/ c4.time >= m.time
              \/ contract.expire /\ m.expire <= now
              \/ m.sig \notin {NoKey, c4.pubkey}
EveryMessageSettles ==
  \A m \in {e \in ExtMsgs : Valid(e)} :
    <>[](c4.init /\ c4.cont = NoCont /\ storeTimestampInC4(contract)) => <>Settled(m)

(* Refinement: what the generated entry points do to the account is what    *)
(* Account promises to those who send messages to it.                       *)
Promise == INSTANCE Account WITH live <- c4.init, value <- c4.x, waiting <- c4.cont # NoCont,
                                 applied <- {m \in ExtMsgs : done[m] > 0}
KeepsPromise == Promise!Spec

(* Fairness: the clock goes on; a transaction ends, since its gas does; a   *)
(* sender delivers its message again and again, and a function that is      *)
(* called again and again accepts and returns.                              *)
Fairness ==
  /\ SF_vars(Tick) /\ WF_vars(Throw \/ Return)
  /\ \A m \in {e \in ExtMsgs : Valid(e)} :
       /\ SF_vars(MainExternal(m))
       /\ SF_vars(tx.mode = "ext" /\ tx.msg = m /\ Accept)
       /\ SF_vars(tx.mode = "ext" /\ tx.msg = m /\ tx.accepted /\ Return)
FairSpec == Spec /\ Fairness
=============================================================================
