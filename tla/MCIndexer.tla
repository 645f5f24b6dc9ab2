----------------------------- MODULE MCIndexer -----------------------------
(***************************************************************************)
(* Small topics for Indexer: the history of one instruction that is        *)
(* created, submitted and approved, with a refusal of an approver on the   *)
(* way, and of a payment on it.  Facts are partitioned by the user, events *)
(* by their id.                                                            *)
(***************************************************************************)
EXTENDS Indexer

Msg(id, ver, act) ==
  [id |-> id, ver |-> ver, act |-> act, approver |-> ver >= 3, rejector |-> FALSE,
   denied |-> FALSE]

Refusal(id, ver) == [Msg(id, ver, "APPROVE") EXCEPT !.denied = TRUE]

MCIds == {"x2", "e3", "f2", "f3", "pe2", "pf3"}

NoLog == [p \in Partitions |-> <<>>]

Two(a, b) == [p \in Partitions |-> IF p = 1 THEN a ELSE b]

\* The maker's facts and the approver's are on two partitions.
InstructionLog ==
  [c \in Consumers |->
     CASE c = "events" -> Two(<<Refusal("x2", 2)>>, <<Msg("e3", 3, "APPROVE")>>)
       [] c = "facts"  -> Two(<<Msg("f2", 2, "SUBMIT")>>, <<Msg("f3", 3, "APPROVE")>>)
       [] OTHER        -> NoLog]

PaymentLog ==
  [c \in Consumers |->
     CASE c = "events"    -> NoLog
       [] c = "facts"     -> Two(<<Msg("f2", 2, "SUBMIT")>>, <<>>)
       [] c = "payEvents" -> Two(<<Msg("pe2", 2, "SUBMIT")>>, <<>>)
       [] c = "payFacts"  -> Two(<<Msg("pf3", 3, "APPROVE")>>, <<>>)]

MCLogs == {InstructionLog, PaymentLog}

=============================================================================
