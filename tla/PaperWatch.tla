------------------------------ MODULE PaperWatch ------------------------------
(***************************************************************************)
(* The second oracle of the miner: the memory cost of the newest sealed    *)
(* block ("paper").  LastblockPoller (network/lastblock.cpp) publishes     *)
(* what two servers say, and Supervisor::refresh_paper (supervisor.cpp)    *)
(* absorbs it, in the mining thread and in the submit worker.              *)
(*                                                                         *)
(* refresh_paper copies the published status, compares its number with     *)
(* last_paper_seq_ and remembers it there without a lock, and applies the  *)
(* copy under state_mu_: three steps, between which the other thread may   *)
(* do the same with another copy.  The unlocked comparison and assignment  *)
(* are one step: two threads that pass together apply one after the other, *)
(* as they do when one passes first.                                       *)
(***************************************************************************)
EXTENDS Integers, FiniteSets

CONSTANT Ms             \* memory costs

ASSUME PaperAssumption == Ms \subseteq Nat \ {0}

NoM == 0                \* no usable answer
Threads == {"mining", "worker"}

\* The published status, the remembered number and two copies are alive.
Seqs == 0..4
Status == [seq : Seqs, m : Ms \cup {NoM}]

VARIABLES
    status,     \* LastblockPoller::status_
    lastSeq,    \* last_paper_seq_
    place,      \* refresh_paper, per thread: "out", "copied" or "marked"
    copy,       \* its local st
    paperOk,    \* paper_ok_
    paperM,     \* paper_newest_m_, NoM before the first answer
    young       \* last_paper_ok_at_ is less than 30 s ago

paperVars == <<status, lastSeq, place, copy, paperOk, paperM, young>>

-----------------------------------------------------------------------------
(* The poller.                                                             *)

\* A lastblock answer: rows of block id and memory cost (NoM when the hash
\* names none).  Two rows are enough for old and new to differ.
Rows == {r \in SUBSET [id : 1..2, m : Ms \cup {NoM}] :
            \A a, b \in r : a.id = b.id => a = b}

\* fetch: the row with the highest id decides, not the majority.
Newest(rows) ==
    IF rows = {} THEN NoM
    ELSE (CHOOSE a \in rows : \A b \in rows : b.id <= a.id).m

\* No connection or an HTTP error leaves nothing as well.
Fetched == {Newest(rows) : rows \in Rows} \cup {NoM}

\* Numbers are only tested for equality, so a poll takes one that nobody has.
Taken == {0, lastSeq} \cup {copy[t].seq : t \in Threads}
NextSeq == CHOOSE s \in Seqs : s \notin Taken

\* poll_once: the fallback server is asked when the first has no answer.
PaperPoll ==
    /\ \E first, fallback \in Fetched :
          status' = [seq |-> NextSeq,
                     m |-> IF first # NoM THEN first ELSE fallback]
    /\ UNCHANGED <<lastSeq, place, copy, paperOk, paperM, young>>

-----------------------------------------------------------------------------
(* refresh_paper.                                                          *)

NoCopy == [seq |-> 0, m |-> NoM]

CopyPaper(t) ==
    /\ place[t] = "out"
    /\ copy' = [copy EXCEPT ![t] = status]
    /\ place' = [place EXCEPT ![t] = "copied"]
    /\ UNCHANGED <<status, lastSeq, paperOk, paperM, young>>

\* Seen before: nothing to do.
SkipPaper(t) ==
    /\ place[t] = "copied" /\ copy[t].seq \in {0, lastSeq}
    /\ copy' = [copy EXCEPT ![t] = NoCopy]
    /\ place' = [place EXCEPT ![t] = "out"]
    /\ UNCHANGED <<status, lastSeq, paperOk, paperM, young>>

\* last_paper_seq_ = st.seq; the copy's number has served its turn.
MarkPaper(t) ==
    /\ place[t] = "copied" /\ copy[t].seq \notin {0, lastSeq}
    /\ lastSeq' = copy[t].seq
    /\ copy' = [copy EXCEPT ![t] = [seq |-> 0, m |-> copy[t].m]]
    /\ place' = [place EXCEPT ![t] = "marked"]
    /\ UNCHANGED <<status, paperOk, paperM, young>>

\* Mutant: a failed poll takes the oracle down only if it never was up.
ApplyPaperSticky(t) ==
    /\ place[t] = "marked"
    /\ IF copy[t].m # NoM
       THEN paperOk' = TRUE /\ paperM' = copy[t].m /\ young' = TRUE
       ELSE paperOk' = (paperM # NoM) /\ UNCHANGED <<paperM, young>>
    /\ copy' = [copy EXCEPT ![t] = NoCopy]
    /\ place' = [place EXCEPT ![t] = "out"]
    /\ UNCHANGED <<status, lastSeq>>

\* An answer is believed; without one the last stands for 30 s.
ApplyPaper(t) ==
    /\ place[t] = "marked"
    /\ IF copy[t].m # NoM
       THEN paperOk' = TRUE /\ paperM' = copy[t].m /\ young' = TRUE
       ELSE /\ paperOk' = (paperM # NoM /\ young)
            /\ UNCHANGED <<paperM, young>>
    /\ copy' = [copy EXCEPT ![t] = NoCopy]
    /\ place' = [place EXCEPT ![t] = "out"]
    /\ UNCHANGED <<status, lastSeq>>

RefreshPaper(t) == CopyPaper(t) \/ SkipPaper(t) \/ MarkPaper(t) \/ ApplyPaper(t)

\* The clock.
PaperAges ==
    /\ young
    /\ young' = FALSE
    /\ UNCHANGED <<status, lastSeq, place, copy, paperOk, paperM>>

-----------------------------------------------------------------------------
\* Before the first poll.
PaperInit ==
    /\ status = NoCopy
    /\ lastSeq = 0
    /\ place = [t \in Threads |-> "out"]
    /\ copy = [t \in Threads |-> NoCopy]
    /\ paperOk = FALSE /\ paperM = NoM /\ young = FALSE

PaperNext ==
    \/ PaperPoll \/ PaperAges
    \/ \E t \in Threads : RefreshPaper(t)

\* The poller's loop and the mining thread's go on, and time passes.  The worker
\* refreshes when it has something to send, which may be never, but does not
\* stop half-way.
PaperFairness ==
    /\ WF_paperVars(PaperPoll) /\ WF_paperVars(PaperAges)
    /\ WF_paperVars(RefreshPaper("mining"))
    /\ WF_paperVars(RefreshPaper("worker") /\ place["worker"] # "out")

PaperSpec == PaperInit /\ [][PaperNext]_paperVars /\ PaperFairness

-----------------------------------------------------------------------------
(* Properties.                                                             *)

PaperTypeOK ==
    /\ status \in Status /\ lastSeq \in Seqs
    /\ place \in [Threads -> {"out", "copied", "marked"}]
    /\ copy \in [Threads -> Status]
    /\ paperOk \in BOOLEAN /\ paperM \in Ms \cup {NoM} /\ young \in BOOLEAN

\* From some time on the polls of lastblock bring the same memory cost, or none.
\* Copies that the two threads carry about, mark without a lock and apply late
\* and out of order, do not keep the miner from believing that for good.
PaperCatchesUp ==
    /\ \A m \in Ms : <>[](status.m = m) => <>[](paperOk /\ paperM = m)
    /\ <>[](status.m = NoM) => <>[]~paperOk
=============================================================================
