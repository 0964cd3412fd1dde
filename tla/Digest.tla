------------------------------ MODULE Digest -------------------------------
(***************************************************************************)
(* The morning digest of one working day.  Any API process may queue the   *)
(* rows of digest_outbox and claim the rows that are due; a claim is a     *)
(* lease of ten minutes that no later UPDATE checks.  The digest is built  *)
(* again when it is sent.                                                  *)
(***************************************************************************)
EXTENDS Naturals, FiniteSets

CONSTANTS Process,        \* API processes
          Person,         \* users with a DCC role
          DigestAttempts, \* MAX_ATTEMPTS of the digest
          MaxTrouble      \* bound: lapsed leases and mails sent but not marked

ASSUME DigestAssumption == /\ IsFiniteSet(Process)
                           /\ DigestAttempts \in Nat \ {0} /\ MaxTrouble \in Nat

VARIABLES digests,   \* digests[u]: status, attempts, due (next_attempt_at has come)
          queued,    \* processes whose 9h00 scan is over
          claimed,   \* claimed[p]: rows p has claimed and not handled
          list,      \* list[p]: the recipients p has read for its batch
          mailing,   \* mailing[p]: rows whose mail p has sent and not marked
          copies,    \* copies[u]: digests of the day that reached u
          eligible,  \* active, with an email, a DCC role and no opt-out
          pressing,  \* those for whom buildDigest is not null
          trouble

digestVars ==
  <<digests, queued, claimed, list, mailing, copies, eligible, pressing, trouble>>

DigestStatus == {"none", "pending", "sending", "sent", "skipped", "failed"}

DigestInit ==
  /\ digests = [u \in Person |-> [status |-> "none", attempts |-> 0, due |-> TRUE]]
  /\ queued = {}
  /\ claimed = [p \in Process |-> {}]
  /\ list = [p \in Process |-> {}]
  /\ mailing = [p \in Process |-> {}]
  /\ copies = [u \in Person |-> 0]
  /\ eligible \in SUBSET Person
  /\ pressing \in SUBSET Person
  /\ trouble = 0

\* Each process runs the cron; UNIQUE (recipient, date) makes the second a no-op.
DigestScan(p) ==
  /\ p \notin queued
  /\ queued' = queued \cup {p}
  /\ digests' = [u \in Person |->
       IF u \in eligible \cap pressing /\ digests[u].status = "none"
         THEN [digests[u] EXCEPT !.status = "pending"] ELSE digests[u]]
  /\ UNCHANGED <<claimed, list, mailing, copies, eligible, pressing, trouble>>

\* Fault: a row in the hands of a process is never due.
DueIfPending(u) == digests[u].status = "pending" /\ digests[u].due

\* Due: waiting, or in the hands of a process whose lease has run out.
DigestDue(u) == digests[u].status \in {"pending", "sending"} /\ digests[u].due

Free(p) == claimed[p] = {} /\ mailing[p] = {}

\* Fault: the due rows are read without a claim.
ReadDue(p) ==
  /\ Free(p)
  /\ \E u \in Person : DigestDue(u)
  /\ claimed' = [claimed EXCEPT ![p] = {u \in Person : DigestDue(u)}]
  /\ list' = [list EXCEPT ![p] = eligible]
  /\ UNCHANGED <<digests, queued, mailing, copies, eligible, pressing, trouble>>

\* One statement selects the due rows, skips locked ones and flips the rest.
Claim(p) ==
  /\ Free(p)
  /\ \E u \in Person : DigestDue(u)
  /\ claimed' = [claimed EXCEPT ![p] = {u \in Person : DigestDue(u)}]
  /\ list' = [list EXCEPT ![p] = eligible]
  /\ digests' = [u \in Person |->
       IF DigestDue(u) THEN [digests[u] EXCEPT !.status = "sending", !.due = FALSE]
       ELSE digests[u]]
  /\ UNCHANGED <<queued, mailing, copies, eligible, pressing, trouble>>

Handled(p, u) == claimed' = [claimed EXCEPT ![p] = @ \ {u}]
MarkDigest(u, status) == digests' = [digests EXCEPT ![u].status = status]

BumpDigest(u) ==
  digests' = [digests EXCEPT
    ![u].status = IF digests[u].attempts + 1 >= DigestAttempts
                    THEN "failed" ELSE "pending",
    ![u].attempts = @ + 1, ![u].due = FALSE]

\* Opted out or cleared since 9h00: dropped, and UNIQUE keeps it dropped.
Skip(p, u) ==
  /\ u \in claimed[p] \ (list[p] \cap pressing)
  /\ MarkDigest(u, "skipped")
  /\ Handled(p, u)
  /\ UNCHANGED <<queued, list, mailing, copies, eligible, pressing, trouble>>

SendDigest(p, u) ==
  /\ u \in claimed[p] \cap list[p] \cap pressing
  /\ copies' = [copies EXCEPT ![u] = @ + 1]
  /\ mailing' = [mailing EXCEPT ![p] = {u}]
  /\ Handled(p, u)
  /\ UNCHANGED <<digests, queued, list, eligible, pressing, trouble>>

RefuseDigest(p, u) ==
  /\ u \in claimed[p] \cap list[p] \cap pressing
  /\ BumpDigest(u)
  /\ Handled(p, u)
  /\ UNCHANGED <<queued, list, mailing, copies, eligible, pressing, trouble>>

MarkDigestSent(p, u) ==
  /\ u \in mailing[p]
  /\ MarkDigest(u, "sent")
  /\ mailing' = [mailing EXCEPT ![p] = {}]
  /\ UNCHANGED <<queued, claimed, list, copies, eligible, pressing, trouble>>

Trouble == trouble < MaxTrouble /\ trouble' = trouble + 1

\* The process dies, or a bookkeeping UPDATE throws out of the whole batch: what
\* it had claimed stays 'sending' until the lease runs out.
Abandon(p) ==
  /\ ~Free(p)
  /\ Trouble
  /\ claimed' = [claimed EXCEPT ![p] = {}]
  /\ mailing' = [mailing EXCEPT ![p] = {}]
  /\ UNCHANGED <<digests, queued, list, copies, eligible, pressing>>

Held(u) == \E p \in Process : u \in claimed[p] \cup mailing[p]

\* A backoff, or the lease of an abandoned row, is over.
Elapses(u) ==
  /\ digests[u].status \in {"pending", "sending"} /\ ~digests[u].due
  /\ ~Held(u)
  /\ digests' = [digests EXCEPT ![u].due = TRUE]
  /\ UNCHANGED <<queued, claimed, list, mailing, copies, eligible, pressing, trouble>>

\* The lease of a row runs out while its process is still at it.
LeaseLapses(u) ==
  /\ digests[u].status = "sending" /\ ~digests[u].due
  /\ Held(u)
  /\ Trouble
  /\ digests' = [digests EXCEPT ![u].due = TRUE]
  /\ UNCHANGED <<queued, claimed, list, mailing, copies, eligible, pressing>>

\* The user's desk is cleared or fills up; the user opts out, or back in.
DeskChanges(u) ==
  /\ pressing' = IF u \in pressing THEN pressing \ {u} ELSE pressing \cup {u}
  /\ UNCHANGED <<digests, queued, claimed, list, mailing, copies, eligible, trouble>>
OptInOrOut(u) ==
  /\ eligible' = IF u \in eligible THEN eligible \ {u} ELSE eligible \cup {u}
  /\ UNCHANGED <<digests, queued, claimed, list, mailing, copies, pressing, trouble>>

DeliverDigest(p) == \E u \in Person :
  \/ mailing[p] = {} /\ (Skip(p, u) \/ SendDigest(p, u) \/ RefuseDigest(p, u))
  \/ MarkDigestSent(p, u)

DigestNext ==
  \/ \E p \in Process : DigestScan(p) \/ Claim(p) \/ DeliverDigest(p) \/ Abandon(p)
  \/ \E u \in Person : Elapses(u) \/ LeaseLapses(u) \/ DeskChanges(u) \/ OptInOrOut(u)

DigestFairness ==
  /\ \A p \in Process : WF_digestVars(Claim(p)) /\ WF_digestVars(DeliverDigest(p))
  /\ \A u \in Person : WF_digestVars(Elapses(u))

DigestSpec == DigestInit /\ [][DigestNext]_digestVars /\ DigestFairness
-----------------------------------------------------------------------------
\* A row has the attempts its window allows; a process sends one mail at a time.
DigestTypeOK ==
  /\ \A u \in Person : digests[u].status \in DigestStatus
                       /\ digests[u].attempts \in Nat
  /\ \A p \in Process : claimed[p] \cup mailing[p] \subseteq Person
                        /\ Cardinality(mailing[p]) <= 1
  /\ trouble \in 0..MaxTrouble

\* However many processes run, a person gets a second digest of the day only if
\* a process died, lost its bookkeeping or outlived its lease: "without the
\* claim, two API processes both read the same pending row and both mail it".
DigestOnce == \A u \in Person : copies[u] <= 1 + trouble

\* A queued digest does not stay in the hands of a dead process.
DigestSettles ==
  \A u \in Person : digests[u].status = "sending" ~> digests[u].status # "sending"
=============================================================================
