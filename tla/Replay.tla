------------------------------- MODULE Replay -------------------------------
(***************************************************************************)
(* replay-contract-hyperion.js: after a loss of storage, everything a      *)
(* contract ever committed is read from a history node, page by page, and  *)
(* posted to a DSP again, a chunk of posts at a time.                      *)
(*                                                                         *)
(* The node lists the newest commit first and knows more of them while the *)
(* tool runs, so that the pages move.  A chunk is over when all its posts  *)
(* are answered or one of them fails; the others are then still out.       *)
(***************************************************************************)
EXTENDS Naturals, Sequences, FiniteSets

CONSTANTS
  LIMIT,      \* commits in a page
  CHUNK,      \* posts at a time
  Blank,      \* the commits without data
  MaxHistory  \* BOUND: how many commits there are in the end

ASSUME ReplayAssumption ==
  /\ LIMIT \in Nat \ {0} /\ CHUNK \in Nat \ {0}
  /\ MaxHistory \in Nat

Commits == 1..MaxHistory   \* numbered from the oldest

VARIABLES
  history,   \* how many commits the node knows
  skip,      \* how many the tool has read
  commits,   \* those of the page that are not posted yet
  chunk,     \* the posts the tool waits for
  out,       \* all posts not answered yet: a commit, and its how-manieth post
  status,    \* of the run
  errors,    \* not in the code: how many chunks failed
  posted,    \* not in the code: how often each commit was posted
  started    \* not in the code: what the node knew at first

vars == <<history, skip, commits, chunk, out, status, errors, posted, started>>

ReplayInit ==
  /\ history \in 0..MaxHistory
  /\ skip = 0
  /\ commits = <<>>
  /\ chunk = {} /\ out = {}
  /\ status = "running"
  /\ errors = 0
  /\ posted = [c \in Commits |-> 0]
  /\ started = history

-----------------------------------------------------------------------------

Smaller(m, n) == IF m < n THEN m ELSE n
Members(s) == {s[i] : i \in DOMAIN s}

(* The contract goes on committing. *)
grow ==
  /\ history < MaxHistory
  /\ history' = history + 1
  /\ UNCHANGED <<skip, commits, chunk, out, status, errors, posted, started>>

(* What the node answers: LIMIT commits behind the first skip. *)
deltas == [i \in 1..Smaller(LIMIT, history - skip) |-> history + 1 - skip - i]

(* Wrong: a page is taken for full. *)
read_Full(page) == LIMIT

read(page) == Len(page)

(* Wrong: nobody waits for the posts. *)
awaited_Not == status = "running"

(* Promise.all with its catch: nothing goes on while the chunk is out. *)
awaited == status = "running" /\ chunk = {}

(* Wrong: the run goes on until the node refuses. *)
atEnd_Never(page) == Len(page) < 0

atEnd(page) == page = <<>>

idle == awaited /\ commits = <<>>

fetch ==
  /\ idle
  /\ commits' = deltas
  /\ skip' = skip + read(deltas)
  /\ status' = IF atEnd(deltas) THEN "done" ELSE "running"
  /\ UNCHANGED <<history, chunk, out, errors, posted, started>>

(* An error while reading ends the run. *)
fetchFails ==
  /\ idle
  /\ status' = "stopped"
  /\ UNCHANGED <<history, skip, commits, chunk, out, errors, posted, started>>

-----------------------------------------------------------------------------

(* Wrong: a slice ends one before the next begins. *)
slices_Apart(s) ==
  [first |-> SubSeq(s, 1, Smaller(CHUNK, Len(s))), rest |-> SubSeq(s, CHUNK + 2, Len(s))]

(* Wrong: a slice begins with the last of the one before. *)
slices_Overlap(s) ==
  [first |-> SubSeq(s, 1, Smaller(CHUNK, Len(s))),
   rest |-> IF Len(s) <= CHUNK THEN <<>> ELSE SubSeq(s, CHUNK, Len(s))]

slices(s) ==
  [first |-> SubSeq(s, 1, Smaller(CHUNK, Len(s))), rest |-> SubSeq(s, CHUNK + 1, Len(s))]

(* The next chunk: all of it is posted, except for commits without data. *)
replay ==
  /\ awaited /\ commits # <<>>
  /\ LET these == Members(slices(commits).first)
         posts == {<<c, posted[c] + 1>> : c \in these \ Blank}
     IN  /\ commits' = slices(commits).rest
         /\ posted' = [c \in Commits |-> IF c \in these THEN posted[c] + 1 ELSE posted[c]]
         /\ chunk' = posts
         /\ out' = out \cup posts
  /\ UNCHANGED <<history, skip, status, errors, started>>

(* The DSP answers, whatever it says: the tool does not look. *)
answered(post) ==
  /\ out' = out \ {post}
  /\ chunk' = chunk \ {post}
  /\ UNCHANGED <<history, skip, commits, status, errors, posted, started>>

(* No answer.  The first such post of a chunk is reported and ends it, the *)
(* later ones go unnoticed.                                                *)
failed(post) ==
  /\ out' = out \ {post}
  /\ chunk' = IF post \in chunk THEN {} ELSE chunk
  /\ errors' = IF post \in chunk THEN errors + 1 ELSE errors
  /\ UNCHANGED <<history, skip, commits, status, posted, started>>

ReplayNext ==
  \/ grow
  \/ fetch \/ fetchFails
  \/ replay
  \/ \E post \in out : answered(post) \/ failed(post)

ReplaySpec == ReplayInit /\ [][ReplayNext]_vars

settled(post) == post \in out /\ (answered(post) \/ failed(post))

(* The node answers, the tool goes on, and a post does not hang for ever. *)
ReplayFairSpec ==
  /\ ReplaySpec
  /\ WF_vars(fetch)
  /\ WF_vars(replay)
  /\ \A post \in Commits \X (1..(MaxHistory + 1)) : WF_vars(settled(post))

-----------------------------------------------------------------------------

(* The tool waits only for posts that are out, commits are in order within *)
(* a page, and it never reads past the end.                                *)
ReplayTypeOK ==
  /\ started \in 0..MaxHistory /\ history \in started..MaxHistory
  /\ skip \in 0..history
  /\ Members(commits) \subseteq Commits
  /\ \A i, j \in DOMAIN commits : i < j => commits[i] > commits[j]
  /\ chunk \subseteq out
  /\ \A p \in out : p[1] \in Commits \ Blank /\ p[2] \in 1..posted[p[1]]
  /\ posted \in [Commits -> 0..(MaxHistory + 1)]
  /\ status \in {"running", "done", "stopped"}
  /\ errors \in Nat

(* What was in the history when the run began is posted when it says it is *)
(* done, although the pages move while it reads and chunks fail.           *)
NothingSkipped ==
  \A c \in 1..started :
    status = "done" \/ c > history - skip => posted[c] > 0 \/ c \in Members(commits)

(* A commit is posted again only because the history has grown meanwhile,  *)
(* and not more often than it grew.                                        *)
RepeatedOnlyIfGrown == \A c \in Commits : posted[c] <= 1 + (history - started)

(* No more posts are out at once than the chunks are to allow, but for     *)
(* those left behind by a chunk that failed.                               *)
FewAtATime == Cardinality(out) <= CHUNK + errors * (CHUNK - 1)

(* Every run ends, if the contract stops committing and posts do not hang. *)
Ends == <>(status # "running")
=============================================================================
