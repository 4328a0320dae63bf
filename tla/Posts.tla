------------------------------- MODULE Posts -------------------------------
(***************************************************************************)
(* The posts of the phoenix contract (main.cpp, createpost and             *)
(* updatepost).  The table is indexed by hand: every user's row lists the  *)
(* ids of his posts and a global list names the latest ones.  The key of   *)
(* an encrypted post is kept in a table of its own, for the DSP.           *)
(*                                                                         *)
(* A deleted post leaves the lists and loses its key; its row stays.       *)
(***************************************************************************)
EXTENDS Naturals, Sequences

CONSTANTS
  Authors,    \* users somebody holds the key of
  Keys,       \* post keys, encrypted for the DSP
  NoKey,      \* what an open post carries instead
  MaxLatest,  \* how many latest posts are kept
  MaxPosts    \* BOUND: how many posts are ever created

ASSUME PostsAssumption ==
  /\ NoKey \notin Keys
  /\ MaxLatest \in Nat \ {0}
  /\ MaxPosts \in Nat

VARIABLES
  posts,                \* a function on the ids given out
  post_indexes,         \* of every author, oldest first
  latest_post_indexes,  \* globals, newest first
  next_post_id,         \* globals
  postkeyenc,           \* the keys, a function on the ids that have one
  paused                \* globals

vars == <<posts, post_indexes, latest_post_indexes, next_post_id, postkeyenc, paused>>

PostsInit ==
  /\ posts = [id \in {} |-> 0]
  /\ post_indexes = [v \in Authors |-> <<>>]
  /\ latest_post_indexes = <<>>
  /\ next_post_id = 0
  /\ postkeyenc = [id \in {} |-> NoKey]
  /\ paused = FALSE

With(f, x, y) == [z \in DOMAIN f \cup {x} |-> IF z = x THEN y ELSE f[z]]
Without(f, x) == [z \in DOMAIN f \ {x} |-> f[z]]
Members(s) == {s[i] : i \in DOMAIN s}

(* std::find_if and erase: the first of them goes, if there is one. *)
First(s, x) == CHOOSE i \in DOMAIN s : s[i] = x /\ \A j \in 1..(i - 1) : s[j] # x
Dropped(s, n) == [j \in 1..(Len(s) - 1) |-> IF j < n THEN s[j] ELSE s[j + 1]]
Erased(s, x) == IF x \in Members(s) THEN Dropped(s, First(s, x)) ELSE s

-----------------------------------------------------------------------------

(* The new post at the front, the last one out if there are too many. *)
update_latest_posts(latest, id) ==
  <<id>> \o SubSeq(latest, 1, IF Len(latest) >= MaxLatest THEN MaxLatest - 1 ELSE Len(latest))

(* Wrong: the list is written back with the globals as they were at first. *)
takenId_WrittenBack(expected) == expected = next_post_id /\ next_post_id' = next_post_id

takenId(expected) == expected = next_post_id /\ next_post_id' = next_post_id + 1

(* Wrong: put in front, as in the list of the latest posts. *)
listed_InFront(mine, id) == <<id>> \o mine

listed(mine, id) == Append(mine, id)

(* The id is the author's guess: it is part of what he signed. *)
createpost(v, expected, key) ==
  /\ ~ paused
  /\ expected < MaxPosts
  /\ takenId(expected)
  /\ expected \notin DOMAIN posts
  /\ posts' = With(posts, expected, [author |-> v, key |-> key])
  /\ post_indexes' = [post_indexes EXCEPT ![v] = listed(@, expected)]
  /\ latest_post_indexes' = update_latest_posts(latest_post_indexes, expected)
  /\ postkeyenc' = IF key = NoKey THEN postkeyenc ELSE With(postkeyenc, expected, key)
  /\ UNCHANGED paused

(* The author, whether or not he deleted the post before. *)
authored(v, id) ==
  /\ ~ paused
  /\ id \in DOMAIN posts
  /\ posts[id].author = v

(* Wrong: an edited key is stored for posts that were encrypted before. *)
keyed_OldOnly(id, key) ==
  IF key # NoKey /\ id \in DOMAIN postkeyenc THEN With(postkeyenc, id, key) ELSE postkeyenc

(* A post that is opened keeps the key it was encrypted with. *)
keyed(id, key) == IF key = NoKey THEN postkeyenc ELSE With(postkeyenc, id, key)

(* Wrong: an edited post is listed if it is not. *)
edit_Listed(v, id, key) ==
  /\ authored(v, id)
  /\ posts' = [posts EXCEPT ![id].key = key]
  /\ postkeyenc' = keyed(id, key)
  /\ post_indexes' = [post_indexes EXCEPT ![v] = IF id \in Members(@) THEN @ ELSE listed(@, id)]
  /\ UNCHANGED <<latest_post_indexes, next_post_id, paused>>

edit(v, id, key) ==
  /\ authored(v, id)
  /\ posts' = [posts EXCEPT ![id].key = key]
  /\ postkeyenc' = keyed(id, key)
  /\ UNCHANGED <<post_indexes, latest_post_indexes, next_post_id, paused>>

(* Wrong: only the list of the author is taken care of. *)
remove_from_latest_post_Not(latest, id) == latest

remove_from_latest_post(latest, id) == Erased(latest, id)

(* The same command with delete_post. *)
delete(v, id) ==
  /\ authored(v, id)
  /\ id \in Members(post_indexes[v])
  /\ post_indexes' = [post_indexes EXCEPT ![v] = Erased(@, id)]
  /\ postkeyenc' = Without(postkeyenc, id)
  /\ latest_post_indexes' = remove_from_latest_post(latest_post_indexes, id)
  /\ UNCHANGED <<posts, next_post_id, paused>>

pause(b) ==
  /\ paused # b
  /\ paused' = b
  /\ UNCHANGED <<posts, post_indexes, latest_post_indexes, next_post_id, postkeyenc>>

PostsNext ==
  \/ \E v \in Authors, id \in 0..MaxPosts, key \in Keys \cup {NoKey} :
        createpost(v, id, key) \/ edit(v, id, key)
  \/ \E v \in Authors, id \in 0..MaxPosts : delete(v, id)
  \/ \E b \in BOOLEAN : pause(b)

PostsSpec == PostsInit /\ [][PostsNext]_vars

-----------------------------------------------------------------------------

Ids == 0..(next_post_id - 1)

(* Ids are given out without gaps, whoever guessed them; every list and    *)
(* table speaks of posts there are.                                        *)
PostsTypeOK ==
  /\ next_post_id \in Nat
  /\ posts \in [Ids -> [author : Authors, key : Keys \cup {NoKey}]]
  /\ post_indexes \in [Authors -> Seq(Ids)]
  /\ latest_post_indexes \in Seq(Ids)
  /\ DOMAIN postkeyenc \subseteq Ids
  /\ \A id \in DOMAIN postkeyenc : postkeyenc[id] \in Keys
  /\ paused \in BOOLEAN

(* An author's list names his own posts, in the order he wrote them and    *)
(* each once: what is deleted from it is gone from it.                     *)
IndexesOfAuthors ==
  \A v \in Authors :
    LET mine == post_indexes[v]
    IN  /\ \A i \in DOMAIN mine : posts[mine[i]].author = v
        /\ \A i, j \in DOMAIN mine : i < j => mine[i] < mine[j]

live(id) == id \in Members(post_indexes[posts[id].author])

(* The latest posts are the newest ones that are not deleted, from newest  *)
(* to oldest: none is missing between them, none deleted is among them.    *)
(* There may be fewer than there is room for, as what was pushed out does  *)
(* not come back when others are deleted.                                  *)
LatestPosts ==
  LET latest == latest_post_indexes
  IN  /\ Len(latest) <= MaxLatest
      /\ \A i, j \in DOMAIN latest : i < j => latest[i] > latest[j]
      /\ \A i \in DOMAIN latest : live(latest[i])
      /\ \A id \in DOMAIN posts, i \in DOMAIN latest :
            live(id) /\ id > latest[i] => id \in Members(latest)

(* A deleted post, which can still be edited, never comes back.            *)
DeletedForGood ==
  [][\A id \in DOMAIN posts : live(id)' => live(id)]_vars

(* Through edits that encrypt, open and encrypt again, the DSP holds the   *)
(* key that opens what is stored.                                          *)
KeyOpensPost ==
  \A id \in DOMAIN posts :
    live(id) /\ posts[id].key # NoKey =>
      id \in DOMAIN postkeyenc /\ postkeyenc[id] = posts[id].key
=============================================================================
