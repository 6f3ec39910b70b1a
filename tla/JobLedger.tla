------------------------------- MODULE JobLedger -------------------------------
(***************************************************************************)
(* What the job queue promises to whoever submits commands, whichever      *)
(* workers, leases and clocks serve them: a key has at most one entry, its *)
(* attempts are made one after the other and at most max_attempts times,   *)
(* every attempt either succeeds or is lost, and an entry that has ended   *)
(* stays as it is.                                                         *)
(***************************************************************************)
EXTENDS Integers

CONSTANTS
  Keys,          \* the idempotency keys of commands
  MaxAttempts,   \* the largest max_attempts of a command
  Codes          \* the error codes of lost attempts

VARIABLE ledger  \* the entry of every key

Unknown == [status |-> "ABSENT", attempts |-> 0, max |-> 0, error |-> "NONE"]

Init == ledger = [k \in Keys |-> Unknown]

\* A key is entered once, with all its attempts before it.
Submit(k, m) ==
  /\ ledger[k] = Unknown
  /\ ledger' = [ledger EXCEPT ![k] =
                  [status |-> "QUEUED", attempts |-> 0, max |-> m,
                   error |-> "NONE"]]

\* The entry of which the next attempt is being made.
Tried(e) ==
  [status |-> "RUNNING", attempts |-> e.attempts + 1, max |-> e.max,
   error |-> e.error]

\* The entry of which an attempt has been lost: it fails with its last one.
Missed(e, code) ==
  [status |-> IF e.attempts = e.max THEN "FAILED" ELSE "QUEUED",
   attempts |-> e.attempts, max |-> e.max, error |-> code]

MayTry(e) == e.status = "QUEUED" /\ e.attempts < e.max

Try(k) ==
  /\ MayTry(ledger[k])
  /\ ledger' = [ledger EXCEPT ![k] = Tried(@)]

\* An attempt that is lost in the step that makes it.
TryInVain(k, code) ==
  /\ MayTry(ledger[k])
  /\ ledger' = [ledger EXCEPT ![k] = Missed(Tried(@), code)]

Succeed(k) ==
  /\ ledger[k].status = "RUNNING"
  /\ ledger' = [ledger EXCEPT ![k].status = "SUCCEEDED"]

\* The attempts of some entries are lost together.
Miss(K, code) ==
  /\ \A k \in K : ledger[k].status = "RUNNING"
  /\ ledger' = [k \in Keys |-> IF k \in K THEN Missed(ledger[k], code)
                                          ELSE ledger[k]]

Next ==
  \/ \E k \in Keys, m \in 1..MaxAttempts : Submit(k, m)
  \/ \E k \in Keys : Try(k) \/ Succeed(k) \/ \E code \in Codes : TryInVain(k, code)
  \/ \E K \in SUBSET Keys, code \in Codes : Miss(K, code)

Spec == Init /\ [][Next]_ledger

=============================================================================
