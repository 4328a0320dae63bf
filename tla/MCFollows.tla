----------------------------- MODULE MCFollows -----------------------------
(***************************************************************************)
(* Follows for the model checker.  The names to follow and unfollow may    *)
(* include the fan himself, a stranger, and one name twice or in both.     *)
(***************************************************************************)
EXTENDS Follows

CONSTANTS ann, ben, cid, zoe

People == {ann, ben, cid}
TwoFans == {ann, ben}
Others == {zoe}
Singles == {<<name>> : name \in {ben, cid}}
MCPayloads ==
  {<<f, <<>>>> : f \in Singles} \cup {<<<<>>, u>> : u \in Singles}
  \cup {<<<<zoe>>, <<>>>>, <<<<ben, cid>>, <<>>>>, <<<<cid, cid>>, <<>>>>, <<<<cid, ben>>, <<ben>>>>}
=============================================================================
