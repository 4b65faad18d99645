-------------------------- MODULE TransactionCard --------------------------
(***************************************************************************)
(* The transaction half of the iOS example: executeTransaction, which runs *)
(* on the main actor from start to end, its FFI call included; the         *)
(* detached polling task it starts; and the card that covers the screen    *)
(* until the poll has confirmed it.  Times are left out: a sleep ends some *)
(* time.  A transaction is the number of its execution.  reset(), which    *)
(* dismisses the card too, is behind the card while there is one.          *)
(*                                                                         *)
(* The Execute button is disabled while isLoading, but isLoading is set    *)
(* and cleared within one stretch of the main actor, so no view is ever    *)
(* drawn with it: a second tap on the button queues a second Task.         *)
(***************************************************************************)
EXTENDS Naturals

CONSTANT MaxTaps  \* bound: taps on Execute Transaction

ASSUME TapsAssumption == MaxTaps \in Nat

Tx == 1..MaxTaps

VARIABLES
  sheet,      \* showCustomCall
  taps,       \* how many taps there were
  queued,     \* Tasks that the button started and that wait for the main actor
  executing,  \* the transaction that executeFromOutside sends, 0 for none
  next,       \* the next transaction
  card,       \* showTransactionCard
  hash,       \* currentTransactionHash
  confirmed,  \* isTransactionConfirmed
  poll,       \* the polling task of each transaction
  current     \* transactionPollingTask: whose it is, 0 for nil

screen == <<sheet, card, hash, confirmed>>
calls == <<taps, queued, executing, next>>
vars == <<screen, calls, poll, current>>

Poll == [stage : {"unused", "sleeping", "confirming", "done"}, cancelled : BOOLEAN]

TypeOK ==
  /\ sheet \in BOOLEAN /\ card \in BOOLEAN /\ confirmed \in BOOLEAN
  /\ hash \in {0} \cup Tx
  /\ taps \in 0..MaxTaps /\ queued \in 0..taps
  /\ executing \in {0} \cup Tx /\ next \in 1..MaxTaps + 1
  /\ poll \in [Tx -> Poll]
  /\ current \in {0} \cup Tx

Init ==
  /\ sheet = FALSE /\ card = FALSE /\ hash = 0 /\ confirmed = FALSE
  /\ taps = 0 /\ queued = 0 /\ executing = 0 /\ next = 1
  /\ poll = [t \in Tx |-> [stage |-> "unused", cancelled |-> FALSE]]
  /\ current = 0

MainIsFree == executing = 0

\* transactionPollingTask?.cancel()
Cancel(t) == IF t = 0 THEN poll ELSE [poll EXCEPT ![t].cancelled = TRUE]

-----------------------------------------------------------------------------
(* Mutations, each a plausible slip in the action named.                   *)

\* BeginExecute that takes up every queued tap over and over (TypeOK).
BeginAgain ==
  /\ MainIsFree
  /\ queued > 0
  /\ executing' = next /\ next' = next + 1
  /\ UNCHANGED <<screen, taps, queued, poll, current>>

\* startTransactionPolling without its first line (OthersAreCancelled).
StartPollingOnly(t) ==
  /\ poll' = [poll EXCEPT ![t].stage = "sleeping"]
  /\ current' = t

\* startTransactionPolling that cancels the task it has just started
\* (CardSettles).
StartThenCancel(t) ==
  /\ poll' = [poll EXCEPT ![t] = [stage |-> "sleeping", cancelled |-> TRUE]]
  /\ current' = t

-----------------------------------------------------------------------------
(* The user. *)

\* The card covers the buttons that open the sheet.
OpenSheet ==
  /\ MainIsFree
  /\ ~sheet /\ ~card
  /\ sheet' = TRUE
  /\ UNCHANGED <<card, hash, confirmed, calls, poll, current>>

CancelSheet ==
  /\ MainIsFree
  /\ sheet
  /\ sheet' = FALSE
  /\ UNCHANGED <<card, hash, confirmed, calls, poll, current>>

\* During the FFI call too: the tap is delivered when the main thread is back.
Tap ==
  /\ sheet
  /\ taps < MaxTaps
  /\ taps' = taps + 1
  /\ queued' = queued + 1
  /\ UNCHANGED <<screen, executing, next, poll, current>>

\* dismissTransactionCard, by the background or Done: only once confirmed.
DismissCard ==
  /\ MainIsFree
  /\ card /\ confirmed
  /\ card' = FALSE
  /\ poll' = Cancel(current) /\ current' = 0
  /\ UNCHANGED <<sheet, hash, confirmed, calls>>

-----------------------------------------------------------------------------
(* executeTransaction. *)

BeginExecute ==
  /\ MainIsFree
  /\ queued > 0
  /\ queued' = queued - 1
  /\ executing' = next /\ next' = next + 1
  /\ UNCHANGED <<screen, taps, poll, current>>

StartPolling(t) ==
  /\ poll' = [Cancel(current) EXCEPT ![t].stage = "sleeping"]
  /\ current' = t

\* The card is shown for the transaction, its poll starts, and the sheet goes.
ExecuteSucceeds ==
  /\ ~MainIsFree
  /\ executing' = 0
  /\ card' = TRUE /\ hash' = executing /\ confirmed' = FALSE
  /\ StartPolling(executing)
  /\ sheet' = FALSE
  /\ UNCHANGED <<taps, queued, next>>

\* An alert: the sheet and the card stay.
ExecuteFails ==
  /\ ~MainIsFree
  /\ executing' = 0
  /\ UNCHANGED <<screen, taps, queued, next, poll, current>>

-----------------------------------------------------------------------------
(* The polling task, off the main thread but for Confirm. *)

\* Its sleeps are over, or cut short by the cancellation: it looks at
\* isCancelled.
Wake(t) ==
  /\ poll[t].stage = "sleeping"
  /\ poll' = [poll EXCEPT ![t].stage = IF poll[t].cancelled THEN "done"
                                       ELSE "confirming"]
  /\ UNCHANGED <<screen, calls, current>>

\* MainActor.run, whatever the card shows by now.
Confirm(t) ==
  /\ MainIsFree
  /\ poll[t].stage = "confirming"
  /\ poll' = [poll EXCEPT ![t].stage = "done"]
  /\ confirmed' = TRUE
  /\ UNCHANGED <<sheet, card, hash, calls, current>>

-----------------------------------------------------------------------------
Execute == BeginExecute \/ ExecuteSucceeds \/ ExecuteFails

Next ==
  \/ OpenSheet \/ CancelSheet \/ Tap \/ DismissCard
  \/ Execute
  \/ \E t \in Tx : Wake(t) \/ Confirm(t)

Spec == Init /\ [][Next]_vars

\* Tasks run, the main actor takes each of its jobs in turn, and the FFI call
\* returns (a request has a timeout).  The user need do nothing.
FairSpec ==
  /\ Spec
  /\ WF_vars(Execute)
  /\ \A t \in Tx : WF_vars(Wake(t)) /\ SF_vars(Confirm(t))

-----------------------------------------------------------------------------
(* What holds. *)

\* Every poll that has not ended, asleep or about to confirm, has been told to
\* stop, but for that of the transaction on the card, which
\* dismissTransactionCard would reach.  Told is not stopped: a poll that looked
\* at isCancelled before it was told confirms all the same, beside the poll of
\* the card, whatever the card shows (ConfirmsTheShownTransaction).
OthersAreCancelled ==
  \A t \in Tx :
    poll[t].stage \in {"sleeping", "confirming"} /\ ~poll[t].cancelled
      => current = t /\ hash = t /\ card

\* A card that waits for its confirmation does not wait forever.
CardSettles == card /\ ~confirmed ~> confirmed

-----------------------------------------------------------------------------
(* What a comment says. *)

\* startTransactionPolling: "Cancel any existing polling".  A poll confirms
\* the transaction that the card shows.  TransactionCardOvertaken.cfg has TLC
\* refute it.
ConfirmsTheShownTransaction ==
  [][\A t \in Tx : Confirm(t) => hash = t]_vars

=============================================================================
