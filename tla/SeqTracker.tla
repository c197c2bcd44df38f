----------------------------- MODULE SeqTracker -----------------------------
(***************************************************************************)
(* e2ekit/seq.go: the receive-side high-water mark of one direction, and   *)
(* the two regimes in which a number is accepted.                          *)
(***************************************************************************)
EXTENDS Naturals

NewSeqTracker(lastSeen) == [last |-> lastSeen, inSession |-> FALSE]

StartSession(t) == [t EXCEPT !.inSession = FALSE]

\* seq 0 and only seq 0 is a plaintext control frame.
CheckFrameClass(seq, plaintextBody) == plaintextBody = (seq = 0)

\* The first AEAD frame of a session may jump forward, later ones may not.
AcceptOK(t, seq) ==
  /\ CheckFrameClass(seq, FALSE)
  /\ seq > t.last
  /\ t.inSession => seq = t.last + 1

\* The error leaves the tracker alone.
Accept(t, seq) == [last |-> seq, inSession |-> TRUE]

\* The jump that mandates a reconcile (t is the tracker before the call).
Reconcile(t, seq) == ~t.inSession /\ seq > t.last + 1

\* The mailbox drain: forward only, gaps expected.
AcceptMailboxOK(t, seq) == seq # 0 /\ seq > t.last

AcceptMailbox(t, seq) == [t EXCEPT !.last = seq]

\* Weakened form: a gap in the drain is not reported.
MailboxGap_Unnoticed(t, seq) == FALSE

MailboxGap(t, seq) == seq > t.last + 1
=============================================================================
