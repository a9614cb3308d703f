----------------------------- MODULE MCMarketing -----------------------------
(***************************************************************************)
(* Marketing on a small instance, of which a behaviour plays one scene:    *)
(* orders of every kind of goods are delivered; codes are redeemed;        *)
(* invitations are accepted; an order is for as many codes of one type as  *)
(* of another.  A scene leaves the other orders, codes, invitations and    *)
(* users alone, which share no row with its own.                           *)
(***************************************************************************)
EXTENDS Marketing, TLC

CONSTANTS
    u1, u2, u3, u4, o1, o2, o3, o4, b1, i1, i2,
    Scenes   \* what is played

VARIABLE scene

Item(cat0, cat1, attr, quantity) ==
    [cat0 |-> cat0, cat1 |-> cat1, attr |-> attr, quantity |-> quantity]

\* An order of each kind of goods, one of codes and goods together, one of a
\* code, one of codes of both types, as many of the one as of the other.
Goods == (o1 :> <<Item("product", "member", 1, 2), Item("product", "project", 1, 1),
                 Item("product", "credit", 3, 1), Item("product", "member", 2, 1)>>)
      @@ (o2 :> <<Item("code", "member", 1, 2), Item("code", "project", 2, 1),
                 Item("product", "service", 0, 1)>>)
      @@ (o3 :> <<Item("code", "project", 2, 1)>>)
      @@ (o4 :> <<Item("code", "member", 1, 1), Item("code", "project", 2, 1)>>)

OneBuyer == [o \in Orders |-> u1]

\* u4 has no code.
Guests == (u2 :> i1) @@ (u3 :> i1) @@ (u4 :> NoRow)

\* The orders, users, newcomers, invitations, numbers of codes and of calls of
\* each scene, and whether batches of codes are asked for and calls may fail.
Played ==
    [deliver |-> [orders |-> {o1, o2}, users |-> {u1}, newcomers |-> {}, invitations |-> {},
                  codes |-> 3, calls |-> 3, batches |-> {}, faults |-> 1],
     grant   |-> [orders |-> {o3}, users |-> {u1, u2, u4}, newcomers |-> {u2, u4},
                  invitations |-> {i1, i2}, codes |-> 2, calls |-> 4, batches |-> {b1}, faults |-> 1],
     invite  |-> [orders |-> {}, users |-> {u1, u2, u3}, newcomers |-> {u2, u3},
                  invitations |-> {i1}, codes |-> 0, calls |-> 4, batches |-> {}, faults |-> 1],
     clash   |-> [orders |-> {o4}, users |-> {}, newcomers |-> {}, invitations |-> {},
                  codes |-> 2, calls |-> 1, batches |-> {}, faults |-> 0]]

\* What a scene leaves alone. Receivers count events while no goroutine runs: the
\* properties look at what they received at rest.
Scope ==
    LET s == Played[scene]
    IN  /\ handled' \subseteq s.orders
        /\ calls' <= s.calls /\ faults' <= s.faults
        /\ scene = "deliver" => calls' + faults' <= 3
        /\ received' # received => \A w \in Workers : pc[w] = "idle"
        /\ \A c \in Codes : c > s.codes => codes'[c] = NoRow
        /\ \A l \in generateLog' : l[1] \in s.orders \cup s.batches
        /\ \A i \in Invitations \ s.invitations : invitation'[i] = NoRow
        /\ \A w \in Workers :
              /\ loc'[w].kind \in {"redeem", "invite"} => loc'[w].uid \in s.users
              /\ loc'[w].kind = "invite" => s.invitations # {}
              /\ loc'[w].kind = "redeem" => loc'[w].code <= s.codes
              /\ loc'[w].kind = "registration" => loc'[w].uid \in s.newcomers

MCInit == Init /\ scene \in Scenes

MCNext == Next /\ UNCHANGED scene

MCSpec == MCInit /\ [][MCNext]_<<vars, scene>>

Symmetry == Permutations(Workers)
=============================================================================
