--------------------------- MODULE MCContractLife ---------------------------
(***************************************************************************)
(* ContractLife for TLC: messages and contracts that meet every guard.     *)
(***************************************************************************)
EXTENDS ContractLife

Ext(fn, t, e, s, p) == [fn |-> fn, time |-> t, expire |-> e, sig |-> s, pub |-> p]
MCExtMsgs == {Ext("constructor", 1, 2, "k1", NoKey), Ext("nonpayable", 1, 1, NoKey, NoKey),
              Ext("nonpayable", 3, 3, "k1", NoKey), Ext("view", 3, 2, "k2", "k2"), Ext("pure", 2, 2, "k2", NoKey),
              Ext("nonpayable", 2, 3, "k1", "k2"),
              Ext("unknown", 2, 3, NoKey, "k2"), Ext("getter", 3, 2, NoKey, NoKey)}
Internal(fn, src, b) == [fn |-> fn, src |-> src, bounced |-> b]
MCIntMsgs == {Internal("constructor", "other", FALSE), Internal("nonpayable", "other", FALSE),
              Internal("pure", "partner", FALSE), Internal("empty", "other", FALSE),
              Internal("answer", "partner", FALSE), Internal("answer", "other", FALSE),
              Internal("unknown", "partner", TRUE)}
Code(p, e, a, n, w, h) == [pubkey |-> p, expire |-> e, afterSignatureCheck |-> a, manyVariables |-> n,
                           await |-> w, handlers |-> h]
MCContracts == {Code(FALSE, FALSE, FALSE, TRUE, FALSE, NoFun), Code(TRUE, TRUE, FALSE, FALSE, TRUE, "view"),
                Code(TRUE, FALSE, TRUE, TRUE, FALSE, "pure"), Code(FALSE, TRUE, FALSE, TRUE, TRUE, "nonpayable"),
                Code(FALSE, FALSE, TRUE, FALSE, TRUE, "nonpayable")}

=============================================================================
