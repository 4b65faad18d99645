----------------------- MODULE TransactionCardProofs -----------------------
(***************************************************************************)
(* TransactionCard's type invariant and OthersAreCancelled, for any number *)
(* of taps.                                                                *)
(***************************************************************************)
EXTENDS TransactionCard, TLAPS

\* What the two invariants rest on: transactions are numbered by the taps that
\* the main actor has taken up, and the stored polling task is the one of the
\* transaction that the card shows.
Inv ==
  /\ TypeOK
  /\ next = taps - queued + 1
  /\ current # 0 => card /\ hash = current
  /\ OthersAreCancelled

\* The first state.
LEMMA InitInv == Init => Inv
<1> SUFFICES ASSUME Init
             PROVE  Inv
  OBVIOUS
<1>1. \A t \in Tx : poll[t] = [stage |-> "unused", cancelled |-> FALSE]
  BY DEF Init
<1>2. poll \in [Tx -> Poll]
  BY DEF Init, Poll
<1>3. TypeOK
  <2>1. sheet \in BOOLEAN /\ card \in BOOLEAN /\ confirmed \in BOOLEAN
    BY Zenon DEF Init
  <2>2. /\ hash = 0 /\ taps = 0 /\ queued = 0 /\ executing = 0 /\ next = 1
        /\ current = 0
    BY DEF Init
  <2> QED
    BY <1>2, <2>1, <2>2, TapsAssumption DEF TypeOK
<1> QED
  BY <1>1, <1>3 DEF Init, Inv, OthersAreCancelled

\* Cancelling keeps the shape of the polls, their stages, and the flags that
\* are set; and it sets the one of the stored task.
LEMMA CancelStored ==
  ASSUME TypeOK
  PROVE  /\ Cancel(current) \in [Tx -> Poll]
         /\ \A t \in Tx : /\ Cancel(current)[t].stage = poll[t].stage
                          /\ poll[t].cancelled => Cancel(current)[t].cancelled
                          /\ t = current => Cancel(current)[t].cancelled
<1>1. CASE current = 0
  BY <1>1, TapsAssumption DEF TypeOK, Cancel, Tx
<1>2. CASE current # 0
  <2>1. current \in Tx /\ poll \in [Tx -> Poll]
    BY <1>2 DEF TypeOK
  <2>2. Cancel(current) = [poll EXCEPT ![current].cancelled = TRUE]
    BY <1>2 DEF Cancel
  <2> QED
    BY ZenonT(40), <2>1, <2>2 DEF Poll
<1> QED
  BY <1>1, <1>2

\* No step disturbs the invariant.
LEMMA NextInv == Inv /\ [Next]_vars => Inv'
<1> SUFFICES ASSUME Inv, [Next]_vars
             PROVE  Inv'
  OBVIOUS
<1> USE TapsAssumption DEF Inv, TypeOK, Tx
<1>1. CASE OpenSheet
  BY <1>1 DEF OpenSheet, OthersAreCancelled, calls
<1>2. CASE CancelSheet
  BY <1>2 DEF CancelSheet, OthersAreCancelled, calls
<1>3. CASE Tap
  BY <1>3 DEF Tap, OthersAreCancelled, screen
<1>4. CASE DismissCard
  <2>1. poll' \in [Tx -> Poll]
    BY <1>4, CancelStored DEF DismissCard
  <2>2. \A t \in Tx : poll'[t].stage \in {"sleeping", "confirming"}
                        => poll'[t].cancelled
    \* the one that was not cancelled is the stored one
    BY <1>4, CancelStored DEF DismissCard, OthersAreCancelled, Poll
  <2> QED
    BY <1>4, <2>1, <2>2 DEF DismissCard, OthersAreCancelled, calls
<1>5. CASE BeginExecute
  BY <1>5 DEF BeginExecute, OthersAreCancelled, screen, MainIsFree
<1>6. CASE ExecuteSucceeds
  <2>1. executing \in Tx
    BY <1>6 DEF ExecuteSucceeds, MainIsFree
  <2>2. poll' = [Cancel(current) EXCEPT ![executing].stage = "sleeping"]
    BY <1>6 DEF ExecuteSucceeds, StartPolling
  <2>3. poll' \in [Tx -> Poll]
    BY ZenonT(40), <2>1, <2>2, CancelStored DEF Poll
  <2>4. \A t \in Tx \ {executing} : poll'[t].stage \in {"sleeping", "confirming"}
                                      => poll'[t].cancelled
    BY <2>1, <2>2, CancelStored DEF OthersAreCancelled, Poll
  <2> QED
    BY <1>6, <2>1, <2>3, <2>4
    DEF ExecuteSucceeds, StartPolling, OthersAreCancelled
<1>7. CASE ExecuteFails
  BY <1>7 DEF ExecuteFails, OthersAreCancelled, screen
<1>8. ASSUME NEW t \in Tx, Wake(t)
      PROVE  Inv'
  BY <1>8 DEF Wake, OthersAreCancelled, Poll, screen, calls
<1>9. ASSUME NEW t \in Tx, Confirm(t)
      PROVE  Inv'
  BY <1>9 DEF Confirm, OthersAreCancelled, Poll, calls
<1>10. CASE UNCHANGED vars
  BY <1>10 DEF vars, screen, calls, OthersAreCancelled
<1> QED
  BY <1>1, <1>2, <1>3, <1>4, <1>5, <1>6, <1>7, <1>8, <1>9, <1>10
  DEF Next, Execute

\* The inductive invariant holds throughout.
THEOREM Invariance == Spec => []Inv
BY InitInv, NextInv, PTL DEF Spec

\* The variables keep their types, however often the button is tapped.
THEOREM TypeCorrect == Spec => []TypeOK
<1>1. Inv => TypeOK
  BY DEF Inv
<1> QED
  BY <1>1, Invariance, PTL

\* Whichever taps, executions, dismissals and wakings there were, every poll
\* that goes on has been told to stop but for that of the card:
\* startTransactionPolling and dismissTransactionCard between them leave no
\* uncancelled poll behind.  That those told too late do not confirm is false.
THEOREM PollCorrect == Spec => []OthersAreCancelled
<1>1. Inv => OthersAreCancelled
  BY DEF Inv
<1> QED
  BY <1>1, Invariance, PTL

-----------------------------------------------------------------------------
(* What an unconfirmed card waits for. *)

\* A transaction that is still to come, or is being sent, has no poll, and the
\* stored poll has begun.
FreshInv ==
  /\ \A t \in Tx : t >= next \/ t = executing =>
       poll[t].stage = "unused" /\ ~poll[t].cancelled
  /\ executing < next
  /\ current # 0 => poll[current].stage # "unused"

\* Behind a card that waits is the stored poll, which nobody has cancelled and
\* which has not ended: its Wake, and then its Confirm, is still to come.
CardIsPolled ==
  card /\ ~confirmed =>
    /\ current # 0
    /\ poll[current].stage \in {"sleeping", "confirming"}
    /\ ~poll[current].cancelled

LEMMA CardStep ==
  ASSUME Inv, FreshInv, CardIsPolled, [Next]_vars
  PROVE  FreshInv' /\ CardIsPolled'
<1> USE DEF FreshInv, CardIsPolled
<1>0. /\ next \in Nat /\ executing \in Nat /\ poll \in [Tx -> Poll]
      /\ current # 0 => current \in Tx
      /\ 0 \notin Tx /\ \A t \in Tx : t \in Nat
  BY TapsAssumption DEF Inv, TypeOK, Tx
<1>1. CASE OpenSheet \/ CancelSheet \/ Tap
  <2>1. UNCHANGED <<executing, next, poll, current, card, confirmed>>
    BY <1>1 DEF OpenSheet, CancelSheet, Tap, calls, screen
  <2> QED
    BY <2>1
<1>2. CASE DismissCard
  <2>1. ~card' /\ current' = 0 /\ UNCHANGED <<executing, next>>
        /\ poll' = Cancel(current)
    BY <1>2 DEF DismissCard, calls
  <2>2. \A t \in Tx : t # current => poll'[t] = poll[t]
    BY <1>0, <2>1 DEF Cancel
  <2> QED
    BY <1>0, <2>1, <2>2
<1>3. CASE BeginExecute
  <2>1. /\ executing' = next /\ next' = next + 1
        /\ UNCHANGED <<poll, current, card, confirmed>>
    BY <1>3 DEF BeginExecute, screen
  <2> QED
    BY <1>0, <2>1
<1>4. CASE ExecuteSucceeds
  <2>1. /\ executing \in Tx /\ executing # current
        /\ poll[executing].stage = "unused" /\ ~poll[executing].cancelled
    BY <1>0, <1>4 DEF ExecuteSucceeds, MainIsFree, Inv, TypeOK
  <2>2. /\ poll' = [Cancel(current) EXCEPT ![executing].stage = "sleeping"]
        /\ current' = executing /\ executing' = 0 /\ next' = next
    BY <1>4 DEF ExecuteSucceeds, StartPolling
  <2>3. /\ Cancel(current) \in [Tx -> Poll]
        /\ \A t \in Tx : t # current => Cancel(current)[t] = poll[t]
    BY <1>0, CancelStored DEF Cancel, Inv
  <2>4. poll'[executing].stage = "sleeping" /\ ~poll'[executing].cancelled
    BY <2>1, <2>2, <2>3 DEF Poll
  <2>5. \A t \in Tx : t # executing /\ t # current => poll'[t] = poll[t]
    BY <2>1, <2>2, <2>3
  <2> QED
    BY <1>0, <2>1, <2>2, <2>4, <2>5
<1>5. CASE ExecuteFails
  <2>1. executing' = 0 /\ UNCHANGED <<next, poll, current, card, confirmed>>
    BY <1>5 DEF ExecuteFails, screen
  <2> QED
    BY <1>0, <2>1
<1>6. ASSUME NEW t \in Tx, Wake(t)
      PROVE  FreshInv' /\ CardIsPolled'
  <2>1. /\ UNCHANGED <<executing, next, current, card, confirmed>>
        /\ poll[t].stage = "sleeping"
    BY <1>6 DEF Wake, calls, screen
  <2>2. /\ poll'[t].cancelled = poll[t].cancelled
        /\ poll'[t].stage \in {"done", "confirming"}
        /\ ~poll[t].cancelled => poll'[t].stage = "confirming"
    BY <1>0, <1>6 DEF Wake, Poll
  <2>3. \A u \in Tx : u # t => poll'[u] = poll[u]
    BY <1>0, <1>6 DEF Wake
  <2> QED
    BY <1>0, <2>1, <2>2, <2>3
<1>7. ASSUME NEW t \in Tx, Confirm(t)
      PROVE  FreshInv' /\ CardIsPolled'
  <2>1. /\ UNCHANGED <<executing, next, current, card>> /\ confirmed'
        /\ poll[t].stage = "confirming"
    BY <1>7 DEF Confirm, calls
  <2>2. poll'[t].stage = "done"
    BY <1>0, <1>7 DEF Confirm, Poll
  <2>3. \A u \in Tx : u # t => poll'[u] = poll[u]
    BY <1>0, <1>7 DEF Confirm
  <2> QED
    BY <1>0, <2>1, <2>2, <2>3
<1>8. CASE UNCHANGED vars
  BY <1>8 DEF vars, screen, calls
<1> QED
  BY <1>1, <1>2, <1>3, <1>4, <1>5, <1>6, <1>7, <1>8 DEF Next, Execute

\* The half of CardSettles that needs no fairness: whatever transactions are
\* sent behind the card, succeed or fail, and whichever polls they cancel, the
\* card never waits for a poll that was cancelled or has ended.
THEOREM CardCorrect == Spec => []CardIsPolled
<1>1. Init => FreshInv /\ CardIsPolled
  BY DEF Init, FreshInv, CardIsPolled
<1>2. Inv /\ FreshInv /\ CardIsPolled /\ [Next]_vars => FreshInv' /\ CardIsPolled'
  BY CardStep
<1> QED
  BY <1>1, <1>2, Invariance, PTL DEF Spec

=============================================================================
