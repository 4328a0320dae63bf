------------------------------ MODULE Follows ------------------------------
(***************************************************************************)
(* Who follows whom (main.cpp, follow; helpers.hpp, diff_vectors).  The    *)
(* relation is stored twice: the row of a user in scope "from" lists whom  *)
(* he follows, the row in scope "to" who follows him.  A missing row is an *)
(* empty list here.                                                        *)
(***************************************************************************)
EXTENDS Naturals, Sequences, FiniteSets, SequencesExt

CONSTANTS
  Users,      \* the users there are
  Strangers,  \* names that are no users
  Fans,       \* users who follow
  Payloads,   \* <<follows, unfollows>> a fan may sign
  MaxList     \* BOUND: the length of a list

ASSUME FollowsAssumption ==
  /\ Users # {} /\ Users \cap Strangers = {} /\ Fans \subseteq Users
  /\ \A p \in Payloads : p \in Seq(Users \cup Strangers) \X Seq(Users \cup Strangers)
  /\ MaxList \in Nat

VARIABLES
  follows_from,  \* scope "from", a list for every user
  follows_to,    \* scope "to"
  paused,        \* globals.paused
  (* What happened, for the properties only: no action reads it. *)
  again,         \* has anybody followed somebody he followed already?
  sent           \* the last payload, with its sender

vars == <<follows_from, follows_to, paused, again, sent>>

Nothing == [by |-> CHOOSE v \in Users : TRUE, follows |-> {}, unfollows |-> {}]

FollowsInit ==
  /\ follows_from = [v \in Users |-> <<>>]
  /\ follows_to = [v \in Users |-> <<>>]
  /\ paused = FALSE
  /\ again = FALSE
  /\ sent = Nothing

-----------------------------------------------------------------------------

(* Of equal neighbours the first. *)
Squeezed(s) ==
  FoldLeft(LAMBDA kept, x : IF kept # <<>> /\ Last(kept) = x THEN kept ELSE Append(kept, x),
           <<>>, s)

(* Wrong: the vector is shortened at the place before the one returned. *)
unique_CutShort(s) == IF Len(Squeezed(s)) > 1 THEN Front(Squeezed(s)) ELSE Squeezed(s)

(* std::unique moves these to the front and returns where they end.  As    *)
(* nobody erases what is behind, the vector keeps its length and there the *)
(* names that were there before.                                           *)
unique(s) == Squeezed(s) \o SubSeq(s, Len(Squeezed(s)) + 1, Len(s))

erased(s, x) == IF Contains(s, x) THEN RemoveFirst(s, x) ELSE s

(* Wrong: the names to remove are looked for before the new ones come in. *)
diff_vectors_RemoveFirst(current, add, remove) ==
  unique(FoldLeft(erased, current, remove) \o add)

(* One occurrence goes for each name to remove. *)
diff_vectors(current, add, remove) ==
  FoldLeft(erased, unique(current \o add), remove)

(* The same change to the row of one name after the other. *)
toEach(rows, names, add, remove) ==
  LET change(r, name) == [r EXCEPT ![name] = diff_vectors(@, add, remove)]
  IN  FoldLeft(change, rows, names)

(* Every name followed gets the fan into its row, then every name          *)
(* unfollowed loses him.                                                   *)
toAll(rows, v, follows, unfollows) ==
  toEach(toEach(rows, follows, <<v>>, <<>>), unfollows, <<>>, <<v>>)

(* Wrong: the names to follow are taken as they come. *)
followChecks_Unfollows(follows, unfollows) ==
  /\ ~ paused
  /\ ToSet(unfollows) \subseteq Users

followChecks(follows, unfollows) ==
  /\ ~ paused
  /\ ToSet(follows) \cup ToSet(unfollows) \subseteq Users

follow(v, follows, unfollows) ==
  /\ followChecks(follows, unfollows)
  /\ follows_from' = [follows_from EXCEPT ![v] = diff_vectors(@, follows, unfollows)]
  /\ follows_to' = toAll(follows_to, v, follows, unfollows)
  /\ \A w \in Users : Len(follows_from'[w]) <= MaxList /\ Len(follows_to'[w]) <= MaxList
  /\ again' = (\/ again
               \/ ~ IsInjective(follows)
               \/ ToSet(follows) \cap ToSet(follows_from[v]) # {})
  /\ sent' = [by |-> v, follows |-> ToSet(follows), unfollows |-> ToSet(unfollows)]
  /\ UNCHANGED paused

pause(b) ==
  /\ paused # b
  /\ paused' = b
  /\ sent' = Nothing
  /\ UNCHANGED <<follows_from, follows_to, again>>

FollowsNext ==
  \/ \E v \in Fans, p \in Payloads : follow(v, p[1], p[2])
  \/ \E b \in BOOLEAN : pause(b)

FollowsSpec == FollowsInit /\ [][FollowsNext]_vars

-----------------------------------------------------------------------------

FollowsTypeOK ==
  /\ follows_from \in [Users -> Seq(Users)]
  /\ follows_to \in [Users -> Seq(Users)]
  /\ {paused, again} \subseteq BOOLEAN
  /\ sent \in [by : Users, follows : SUBSET Users, unfollows : SUBSET Users]

Agree ==
  \A v, w \in Users : Contains(follows_from[v], w) <=> Contains(follows_to[w], v)

(* As long as nobody follows whom he follows already, the two tables tell  *)
(* the same, and no list has a name twice.                                 *)
AgreeUntilAgain ==
  ~ again => /\ Agree
             /\ \A v \in Users : IsInjective(follows_from[v]) /\ IsInjective(follows_to[v])

(* Even after that nobody enters or leaves a list unless the sender named  *)
(* him, or her whose list it is; and whom he names to follow is there.     *)
OnlyAsSent ==
  [][\A v, w \in Users :
       LET added == sent'.by = v /\ w \in sent'.follows
           removed == sent'.by = v /\ w \in sent'.unfollows
           sentBefore(list, x) == Contains(list, x) /\ ~ removed
       IN  /\ sentBefore(follows_from[v], w) => Contains(follows_from'[v], w)
           /\ sentBefore(follows_to[w], v) => Contains(follows_to'[w], v)
           /\ Contains(follows_from'[v], w) => added \/ Contains(follows_from[v], w)
           /\ Contains(follows_to'[w], v) => added \/ Contains(follows_to[w], v)
           /\ added /\ ~ removed =>
                Contains(follows_from'[v], w) /\ Contains(follows_to'[w], v)]_vars

(* phoenix.hpp: one relation from whom to whom, its data duplicated into   *)
(* two tables because there are no secondary indexes.                      *)
OneRelation == Agree
=============================================================================
