---------------------------- MODULE MCDomainBlock ----------------------------
(***************************************************************************)
(* DomainBlock for TLC: a URL for each answer the throttle tells apart, two *)
(* hosts.                                                                  *)
(***************************************************************************)
EXTENDS DomainBlock

CONSTANTS
  plain,    \* no rule
  banned,   \* blocked by the default engine
  strict,   \* blocked by an important rule, on the host of banned
  tracked,  \* rewritten into plain
  both      \* blocked, and rewritten into plain

MCUrl == {plain, banned, strict, tracked, both}

MCHost == [u \in MCUrl |-> IF u \in {banned, strict} THEN "ads" ELSE "site"]

M(rules, rewritten) == [rules |-> rules, redirect |-> FALSE, rewritten |-> rewritten]

MCDefault ==
  [u \in MCUrl |->
     M(IF u \in {banned, both} THEN {"normal"} ELSE IF u = strict THEN {"important"} ELSE {}, {})]

MCAdditional ==
  [u \in MCUrl |->
     M(IF u = strict THEN {"normal"} ELSE {}, IF u \in {tracked, both} THEN {plain} ELSE {})]
=============================================================================
