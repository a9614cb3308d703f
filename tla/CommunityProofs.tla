--------------------------- MODULE CommunityProofs ---------------------------
(***************************************************************************)
(* Proofs about the scenes of MCCommunity that read, count and pay, each   *)
(* with its inductive invariant: that it holds at the beginning, that      *)
(* every step keeps it, and what follows from it.  The theorems at the end *)
(* are about the behaviours of all scenes.                                 *)
(***************************************************************************)
EXTENDS MCCommunity, FiniteSetTheorems, TLAPS

LEMMA OneMore ==
    ASSUME NEW S, IsFiniteSet(S), NEW x, x \notin S
    PROVE  /\ IsFiniteSet(S \cup {x})
           /\ Cardinality(S \cup {x}) = Cardinality(S) + 1
           /\ Cardinality(S) \in Nat
BY FS_AddElement, FS_CardinalityType

LEMMA OneLess ==
    ASSUME NEW S, IsFiniteSet(S), NEW x, x \in S
    PROVE  /\ IsFiniteSet(S \ {x})
           /\ Cardinality(S \ {x}) = Cardinality(S) - 1
           /\ Cardinality(S) \in Nat
BY FS_RemoveElement, FS_CardinalityType

-----------------------------------------------------------------------------
(***************************************************************************)
(* What an account may read.  In it s1 is now, s2 is endAt, s3 is perms,   *)
(* s4 is tokens, s5 is sess, s6 is may and s7 is must.                     *)
(*                                                                         *)
(* A token and a session hold what the tables said once, and the tables    *)
(* only grow: what a request holds never promises more than they do.  A    *)
(* day may end between any two steps, so what is known is about the        *)
(* moments of the request, in `may` and `must`.                            *)
(***************************************************************************)
OfOwners == {"resource", "question", "project"}

VisitType ==
    [op : {"idle", "login"} \cup Doors!OfMembers \cup OfOwners,
     pc : {"idle", "ddl", "perms", "build", "token", "info", "compare", "claims",
           "list", "has", "set", "in", "out"},
     id : Resources \cup {0}, ssid : Nat, ddl : Nat, now : Nat, list : SUBSET Resources,
     failed : BOOLEAN]

AccessType ==
    /\ s1 \in Nat /\ s2 \in Nat /\ s3 \subseteq Resources
    /\ s4 \subseteq [ssid : Nat, ddl : Nat]
    /\ s5 \in Seq(SUBSET (Resources \cup {0}))
    /\ call \in [Procs -> VisitType]
    /\ s6 \in [Procs -> BOOLEAN] /\ s7 \in [Procs -> BOOLEAN]

\* Nothing that was kept promises more than the tables.
KeptIsOld ==
    /\ \A t \in s4 : t.ssid \in 1..Len(s5) /\ t.ddl <= s2
    /\ \A s \in 1..Len(s5) : s5[s] = Doors!NoSession \/ s5[s] \subseteq s3
    /\ \A p \in Procs : call[p].ddl <= s2 /\ call[p].list \subseteq s3 /\ call[p].now <= s1

Serving == {"token", "info", "compare", "claims", "list", "has", "set"}

\* What is known of call c at each of its steps, when it may or must be let in.
Known(c, mayBe, mustBe) ==
    /\ c.pc \in {"token", "info", "compare", "claims"} => c.op \in Doors!OfMembers
    /\ c.pc \in {"list", "has", "set"} => c.op \in OfOwners /\ c.id \in Resources
    /\ c.pc \in {"list", "set"} => c.op = "resource"
    /\ c.pc \in {"ddl", "perms", "build"} => c.op = "login"
    /\ c.pc = "idle" => c.op = "idle"
    /\ c.pc \in Serving => c.ssid \in 1..Len(s5)
    /\ c.pc \in {"token", "info"} /\ s2 # 0 /\ s2 >= c.now => mayBe
    /\ c.pc = "compare" /\ c.op = "member" /\ c.ddl # 0 /\ c.ddl >= c.now => mayBe
    /\ c.pc = "claims" => mayBe
    /\ c.pc = "set" => c.id \in s3
    /\ c.pc = "in" /\ c.op # "login" => mayBe
    /\ c.pc = "out" /\ c.op # "login" /\ ~c.failed /\ (c.op \in Doors!OfMembers => c.ddl = s2) => ~mustBe

AccessInv ==
    /\ AccessType
    /\ KeptIsOld
    /\ \A p \in Procs : Known(call[p], s6[p], s7[p])

\* The tables only grow, and with them what may be let in.
LEMMA TablesGrow ==
    ASSUME AccessInv, [Doors!Next]_Doors!accessVars
    PROVE  /\ s1' \in Nat /\ s2' \in Nat /\ s3' \subseteq Resources
           /\ s1 <= s1' /\ s2 <= s2' /\ s3 \subseteq s3'
           /\ s2 # s2' => s2' > s1'
<1>1. ASSUME NEW p \in Procs, Doors!Step(p)
      PROVE  UNCHANGED Doors!Tables
  BY <1>1 DEF Doors!Step, Doors!Login, Doors!getMemberDDL, Doors!FindPersonalPermissions,
              Doors!setupSession, Doors!CheckToken, Doors!GetMembershipInfo, Doors!Compare,
              Doors!UpdateClaims, Doors!CheckList, Doors!HasPermission, Doors!SetList,
              Doors!Return, Doors!CheckMembership, Doors!CheckPermission, Doors!QuestionDetail,
              Doors!CaseDetail, Doors!ProjectDetail, Doors!Request
<1>2. CASE UNCHANGED Doors!Tables
  BY <1>2 DEF Doors!Tables, AccessInv, AccessType
<1>3. CASE Doors!Others
  <2>1. /\ s1 \in Nat /\ s2 \in Nat /\ s3 \subseteq Resources
    BY DEF AccessInv, AccessType
  <2> QED
    BY <1>3, <2>1 DEF Doors!Others, Doors!Tick, Doors!Extend, Doors!CreatePersonalPermission,
                      Doors!Logout, Doors!Tables
<1>4. CASE UNCHANGED Doors!accessVars
  BY <1>2, <1>4 DEF Doors!accessVars, Doors!Tables
<1> QED
  BY <1>1, <1>2, <1>3, <1>4 DEF Doors!Next

\* A session that is destroyed, created, or written by the check that read it.
LEMMA SessionsChange ==
    ASSUME AccessInv
    PROVE  /\ \A s \in DOMAIN s5 :
                 LET new == [s5 EXCEPT ![s] = Doors!NoSession]
                 IN  /\ new \in Seq(SUBSET (Resources \cup {0})) /\ Len(new) = Len(s5)
                     /\ \A i \in 1..Len(new) : new[i] = Doors!NoSession \/ new[i] \subseteq s3
           /\ \A l \in SUBSET s3 :
                 LET new == Append(s5, l)
                 IN  /\ new \in Seq(SUBSET (Resources \cup {0})) /\ Len(new) = Len(s5) + 1
                     /\ \A i \in 1..Len(new) : new[i] = Doors!NoSession \/ new[i] \subseteq s3
           /\ \A s \in DOMAIN s5, l \in SUBSET s3 :
                 LET new == [s5 EXCEPT ![s] = l]
                 IN  /\ new \in Seq(SUBSET (Resources \cup {0})) /\ Len(new) = Len(s5)
                     /\ new[s] = l
                     /\ \A i \in 1..Len(new) : new[i] = Doors!NoSession \/ new[i] \subseteq s3
<1>1. /\ s5 \in Seq(SUBSET (Resources \cup {0})) /\ s3 \subseteq Resources
      /\ \A s \in 1..Len(s5) : s5[s] = Doors!NoSession \/ s5[s] \subseteq s3
  BY DEF AccessInv, AccessType, KeptIsOld
<1>2. Doors!NoSession \in SUBSET (Resources \cup {0})
  BY DEF Doors!NoSession
<1>3. \A l \in SUBSET s3 : l \in SUBSET (Resources \cup {0})
  BY <1>1
<1> QED
  BY <1>1, <1>2, <1>3

\* Every step keeps what the sessions say old, and destroys the entry of none.
LEMMA SessionsStay ==
    ASSUME AccessInv, [Doors!Next]_Doors!accessVars
    PROVE  /\ s5' \in Seq(SUBSET (Resources \cup {0})) /\ Len(s5) <= Len(s5')
           /\ \A i \in 1..Len(s5') : s5'[i] = Doors!NoSession \/ s5'[i] \subseteq s3
<1>1. CASE s5' = s5
  BY <1>1 DEF AccessInv, AccessType, KeptIsOld
<1>2. ASSUME NEW p \in Procs, Doors!setupSession(p), s5' = Append(s5, call[p].list)
      PROVE  /\ s5' \in Seq(SUBSET (Resources \cup {0})) /\ Len(s5) <= Len(s5')
             /\ \A i \in 1..Len(s5') : s5'[i] = Doors!NoSession \/ s5'[i] \subseteq s3
  <2>1. call[p].list \in SUBSET s3 /\ Len(s5) \in Nat
    BY DEF AccessInv, AccessType, KeptIsOld
  <2>2. LET new == Append(s5, call[p].list)
        IN  /\ new \in Seq(SUBSET (Resources \cup {0})) /\ Len(new) = Len(s5) + 1
            /\ \A i \in 1..Len(new) : new[i] = Doors!NoSession \/ new[i] \subseteq s3
    BY <2>1, SessionsChange
  <2> QED
    BY <1>2, <2>1, <2>2
<1>3. ASSUME NEW p \in Procs, Doors!SetList(p), Doors!Listed(p)
      PROVE  /\ s5' \in Seq(SUBSET (Resources \cup {0})) /\ Len(s5) <= Len(s5')
             /\ \A i \in 1..Len(s5') : s5'[i] = Doors!NoSession \/ s5'[i] \subseteq s3
  <2>1. /\ call[p].pc = "set" /\ call[p].list \subseteq s3 /\ Known(call[p], s6[p], s7[p])
        /\ s5 \in Seq(SUBSET (Resources \cup {0})) /\ Len(s5) \in Nat
    BY <1>3 DEF Doors!SetList, AccessInv, AccessType, KeptIsOld
  <2>2. call[p].ssid \in DOMAIN s5 /\ call[p].list \cup {call[p].id} \in SUBSET s3
    BY <2>1 DEF Known, Serving
  <2> QED
    BY <1>3, <2>1, <2>2, SessionsChange DEF Doors!Listed
<1>4. CASE Doors!Logout
  <2>1. Len(s5) \in Nat
    BY DEF AccessInv, AccessType
  <2> QED
    BY <1>4, <2>1, SessionsChange DEF Doors!Logout
<1>5. ASSUME NEW p \in Procs, Doors!Step(p)
      PROVE  \/ s5' = s5
             \/ Doors!setupSession(p) /\ s5' = Append(s5, call[p].list)
             \/ Doors!SetList(p) /\ Doors!Listed(p)
  BY <1>5 DEF Doors!Step, Doors!Login, Doors!getMemberDDL, Doors!FindPersonalPermissions,
              Doors!setupSession, Doors!CheckToken, Doors!GetMembershipInfo, Doors!Compare,
              Doors!UpdateClaims, Doors!CheckList, Doors!HasPermission, Doors!SetList,
              Doors!Return, Doors!CheckMembership, Doors!CheckPermission, Doors!QuestionDetail,
              Doors!CaseDetail, Doors!ProjectDetail, Doors!Request
<1>6. CASE Doors!Others
  BY <1>1, <1>4, <1>6 DEF Doors!Others, Doors!Tick, Doors!Extend, Doors!CreatePersonalPermission
<1>7. CASE UNCHANGED Doors!accessVars
  BY <1>1, <1>7 DEF Doors!accessVars
<1> QED
  BY <1>1, <1>2, <1>3, <1>5, <1>6, <1>7 DEF Doors!Next

LEMMA WatchType ==
    ASSUME AccessInv, Doors!Watch
    PROVE  s6' \in [Procs -> BOOLEAN] /\ s7' \in [Procs -> BOOLEAN]
BY DEF Doors!Watch, AccessInv, AccessType

\* A call that does not move goes on knowing what it knew.
LEMMA OthersKnow ==
    ASSUME AccessInv, [Doors!Next]_Doors!accessVars, NEW p \in Procs, call'[p] = call[p]
    PROVE  Known(call[p], s6[p], s7[p])'
<1> DEFINE c == call[p]
<1>1. Known(c, s6[p], s7[p])
  BY DEF AccessInv
<1>2. /\ c \in VisitType /\ s1 \in Nat /\ s2 \in Nat
      /\ s6[p] \in BOOLEAN /\ s7[p] \in BOOLEAN
      /\ c.ddl <= s2 /\ c.now <= s1
  BY DEF AccessInv, AccessType, KeptIsOld
<1>3. c.ddl \in Nat /\ c.now \in Nat
  BY <1>2 DEF VisitType
<1>4. /\ s1' \in Nat /\ s2' \in Nat /\ s3 \subseteq s3'
      /\ s1 <= s1' /\ s2 <= s2'
      /\ s2 # s2' => s2' > s1'
  BY TablesGrow
<1>5. CASE UNCHANGED Doors!accessVars
  BY <1>1, <1>5 DEF Known, Serving, Doors!accessVars
<1>7. c.pc \in Serving => c.ssid \in 1..Len(s5')
  <2>1. Len(s5) \in Nat /\ Len(s5') \in Nat /\ Len(s5) <= Len(s5')
    BY SessionsStay DEF AccessInv, AccessType
  <2> QED
    BY <1>1, <2>1 DEF Known, Serving
<1>6. CASE Doors!Watch
  <2>1. /\ c.pc # "idle" => (s6'[p] <=> s6[p] \/ Doors!Entitled(c)')
        /\ c.pc # "idle" => (s7'[p] <=> s7[p] /\ Doors!Entitled(c)')
    BY <1>2, <1>6 DEF Doors!Watch
  <2>2. c.pc # "idle" /\ s6[p] => s6'[p]
    BY <2>1
  <2>3. c.pc # "idle" /\ s7'[p] => s7[p]
    BY <2>1
  <2>4. c.pc \in {"token", "info"} /\ s2' # 0 /\ s2' >= c.now => s6'[p]
    <3>1. CASE s2' = s2
      BY <1>1, <2>2, <3>1 DEF Known, Serving
    <3>2. CASE s2' # s2
      <4>1. c.pc \in {"token", "info"} => Doors!Entitled(c)'
        BY <1>1, <1>3, <1>4, <3>2 DEF Known, Serving, Doors!Entitled
      <4> QED
        BY <2>1, <4>1
    <3> QED
      BY <3>1, <3>2
  <2>5. c.pc = "out" /\ c.op # "login" /\ ~c.failed /\ (c.op \in Doors!OfMembers => c.ddl = s2') => ~s7'[p]
    <3>1. c.ddl = s2' => c.ddl = s2
      BY <1>2, <1>3, <1>4
    <3> QED
      BY <1>1, <2>3, <3>1 DEF Known, Serving
  <2> QED
    BY <1>1, <1>4, <1>7, <2>2, <2>4, <2>5 DEF Known, Serving
<1> QED
  BY <1>5, <1>6 DEF Doors!Next

\* Call p becomes c, and keeps what the tables said.
Visited(p, c) ==
    /\ c \in VisitType
    /\ call' = [call EXCEPT ![p] = c]
    /\ c.ddl <= s2 /\ c.list \subseteq s3 /\ c.now <= s1
    /\ \A t \in s4' \ s4 :
          t \in [ssid : 1..Len(s5'), ddl : Nat] /\ t.ddl <= s2
    /\ UNCHANGED Doors!Tables

\* What the tables entitle c to at this moment.
Now(c) ==
    IF c.op \in Doors!OfMembers THEN s2 # 0 /\ s2 >= s1
    ELSE c.id \in s3 /\ (c.op = "resource" => s5'[c.ssid] # Doors!NoSession)

\* A step that reads the tables and writes nothing but its call.
LEMMA Reads ==
    ASSUME AccessInv, NEW p \in Procs, NEW c \in VisitType, call' = [call EXCEPT ![p] = c],
           c.ddl <= s2, c.list \subseteq s3, c.now <= s1,
           UNCHANGED <<Doors!Tables, s4>>
    PROVE  Visited(p, c)
BY DEF Visited, Doors!Tables

LEMMA Moment ==
    ASSUME AccessInv, Doors!Watch, NEW p \in Procs, NEW c, Visited(p, c), c.pc # "idle"
    PROVE  /\ s6'[p] <=> s6[p] \/ Now(c)
           /\ s7'[p] <=> (call[p].pc = "idle" \/ s7[p]) /\ Now(c)
<1>1. call'[p] = c
  BY DEF Visited, AccessInv, AccessType
<1>2. Doors!Entitled(call[p])' <=> Now(c)
  BY <1>1 DEF Visited, Doors!Tables, Doors!Entitled, Now
<1>3. s6[p] \in BOOLEAN /\ s7[p] \in BOOLEAN
  BY DEF AccessInv, AccessType
<1> QED
  BY <1>1, <1>2, <1>3 DEF Doors!Watch

LEMMA MovesKeep ==
    ASSUME AccessInv, Doors!Next, Doors!Watch, NEW p \in Procs, NEW c, Visited(p, c), Known(c, s6'[p], s7'[p])
    PROVE  AccessInv'
<1>1. /\ call'[p] = c /\ \A q \in Procs \ {p} : call'[q] = call[q]
      /\ call' \in [Procs -> VisitType]
      /\ s1' = s1 /\ s2' = s2 /\ s3' = s3
  BY DEF Visited, Doors!Tables, AccessInv, AccessType
<1>2. AccessType'
  <2>1. s4' \subseteq [ssid : Nat, ddl : Nat]
    BY DEF Visited, AccessInv, AccessType
  <2> QED
    BY <1>1, <2>1, WatchType, SessionsStay DEF AccessInv, AccessType
<1>3. KeptIsOld'
  <2>1. Len(s5) \in Nat /\ Len(s5') \in Nat /\ Len(s5) <= Len(s5')
    BY SessionsStay DEF AccessInv, AccessType
  <2>2. \A t \in s4' : t.ssid \in 1..Len(s5') /\ t.ddl <= s2
    <3>1. \A t \in s4 : t.ssid \in 1..Len(s5') /\ t.ddl <= s2
      BY <2>1 DEF AccessInv, KeptIsOld
    <3> QED
      BY <3>1 DEF Visited
  <2>3. \A s \in 1..Len(s5') : s5'[s] = Doors!NoSession \/ s5'[s] \subseteq s3
    BY SessionsStay
  <2>4. \A q \in Procs : call'[q].ddl <= s2 /\ call'[q].list \subseteq s3 /\ call'[q].now <= s1
    BY <1>1 DEF Visited, AccessInv, KeptIsOld
  <2> QED
    BY <1>1, <2>2, <2>3, <2>4 DEF KeptIsOld
<1>4. Known(call[p], s6[p], s7[p])'
  <2>1. Len(s5) \in Nat /\ Len(s5') \in Nat /\ Len(s5) <= Len(s5')
    BY SessionsStay DEF AccessInv, AccessType
  <2> QED
    BY <1>1, <2>1 DEF Known, Serving
<1>5. \A q \in Procs \ {p} : Known(call[q], s6[q], s7[q])'
  BY <1>1, OthersKnow
<1> QED
  BY <1>2, <1>3, <1>4, <1>5 DEF AccessInv

\* Logins know nothing of what may be let in.
LEMMA LoginKeeps ==
    ASSUME AccessInv, Doors!Next, Doors!Watch, NEW p \in Procs,
           Doors!Login(p) \/ Doors!getMemberDDL(p) \/ Doors!FindPersonalPermissions(p) \/ Doors!setupSession(p) \/ Doors!Return(p)
    PROVE  AccessInv'
<1> DEFINE c == call[p]
           d == call'[p]
<1>1. /\ c \in VisitType /\ s1 \in Nat /\ s2 \in Nat /\ s3 \subseteq Resources
      /\ c.ddl <= s2 /\ c.list \subseteq s3 /\ c.now <= s1
      /\ Known(c, s6[p], s7[p])
  BY DEF AccessInv, AccessType, KeptIsOld
<1>2. /\ Doors!Idle \in VisitType /\ Doors!Idle.ddl = 0 /\ Doors!Idle.list = {} /\ Doors!Idle.now = 0
      /\ Doors!Idle.pc = "idle" /\ Doors!Idle.op = "idle"
  BY DEF Doors!Idle, VisitType
<1>3. ASSUME Doors!Login(p) PROVE Visited(p, d) /\ d.op = "login" /\ d.pc = "ddl"
  <2>1. d = [Doors!Idle EXCEPT !.op = "login", !.pc = "ddl"] /\ call' = [call EXCEPT ![p] = d]
    BY <1>3 DEF Doors!Login, AccessInv, AccessType
  <2>2. /\ d \in VisitType /\ d.ddl = 0 /\ d.list = {} /\ d.now = 0
        /\ d.op = "login" /\ d.pc = "ddl"
    <3>1. d = [op |-> "login", pc |-> "ddl", id |-> 0, ssid |-> 0, ddl |-> 0, now |-> 0,
               list |-> {}, failed |-> FALSE]
      BY <2>1 DEF Doors!Idle
    <3> QED
      BY <3>1 DEF VisitType
  <2>3. d.ddl <= s2 /\ d.list \subseteq s3 /\ d.now <= s1
    BY <1>1, <2>2
  <2>4. Visited(p, d)
    BY <1>3, <2>1, <2>2, <2>3, Reads DEF Doors!Login
  <2> QED
    BY <2>2, <2>4
<1>4. ASSUME Doors!getMemberDDL(p) PROVE Visited(p, d) /\ d.op = "login" /\ d.pc = "perms"
  <2>1. c.op = "login" /\ (d = [c EXCEPT !.ddl = s2, !.pc = "perms"] \/ d = [c EXCEPT !.pc = "perms"])
        /\ call' = [call EXCEPT ![p] = d]
    BY <1>1, <1>4 DEF Doors!getMemberDDL, Known, Serving, AccessInv, AccessType
  <2>2. /\ d \in VisitType /\ d.ddl <= s2 /\ d.list = c.list /\ d.now = c.now
        /\ d.op = "login" /\ d.pc = "perms"
    <3>1. CASE d = [c EXCEPT !.ddl = s2, !.pc = "perms"]
      <4>1. /\ d.ddl = s2 /\ d.list = c.list /\ d.now = c.now
            /\ d.op = c.op /\ d.pc = "perms"
        BY <1>1, <3>1 DEF VisitType
      <4>2. d \in VisitType
        BY <1>1, <3>1 DEF VisitType
      <4> QED
        BY <1>1, <2>1, <4>1, <4>2
    <3>2. CASE d = [c EXCEPT !.pc = "perms"]
      BY <1>1, <2>1, <3>2 DEF VisitType
    <3> QED
      BY <2>1, <3>1, <3>2
  <2> QED
    BY <1>1, <1>4, <2>1, <2>2, Reads DEF Doors!getMemberDDL
<1>5. ASSUME Doors!FindPersonalPermissions(p)
      PROVE  Visited(p, d) /\ d.op = "login" /\ d.pc \in {"build", "out"}
  <2>1. /\ c.op = "login"
        /\ d = [c EXCEPT !.list = s3, !.pc = "build"] \/ d = [c EXCEPT !.pc = "out", !.failed = TRUE]
        /\ call' = [call EXCEPT ![p] = d]
    BY <1>1, <1>5 DEF Doors!FindPersonalPermissions, Doors!Failed, Known, Serving, AccessInv,
                      AccessType
  <2> QED
    BY <1>1, <1>5, <2>1 DEF Doors!FindPersonalPermissions, Visited, Doors!Tables, VisitType
<1>6. ASSUME Doors!setupSession(p)
      PROVE  Visited(p, d) /\ d.op = "login" /\ d.pc \in {"in", "out"}
  <2>1. /\ c.op = "login"
        /\ d = [c EXCEPT !.pc = "in"] \/ d = [c EXCEPT !.pc = "out", !.failed = TRUE]
        /\ call' = [call EXCEPT ![p] = d]
        /\ \/ s4' = s4
           \/ /\ s4' = s4 \cup {[ssid |-> Len(s5) + 1, ddl |-> c.ddl]}
              /\ s5' = Append(s5, c.list)
    BY <1>1, <1>6 DEF Doors!setupSession, Doors!Goto, Doors!Failed, Known, Serving, AccessInv,
                      AccessType
  <2>2. \A t \in s4' \ s4 : t \in [ssid : 1..Len(s5'), ddl : Nat] /\ t.ddl <= s2
    <3>1. c.list \in SUBSET s3 /\ Len(s5) \in Nat /\ c.ddl \in Nat
      BY <1>1 DEF AccessInv, AccessType, VisitType
    <3>2. s5' = Append(s5, c.list) => Len(s5') = Len(s5) + 1
      BY <3>1, SessionsChange
    <3> QED
      BY <1>1, <2>1, <3>1, <3>2
  <2> QED
    BY <1>1, <1>6, <2>1, <2>2 DEF Doors!setupSession, Visited, Doors!Tables, VisitType
<1>7. ASSUME Doors!Return(p) PROVE Visited(p, d) /\ d.op = "idle" /\ d.pc = "idle"
  BY <1>1, <1>2, <1>7 DEF Doors!Return, Visited, Doors!Tables, AccessInv, AccessType
<1>8. /\ Visited(p, d)
      /\ \/ d.op = "login" /\ d.pc \in {"ddl", "perms", "build", "in", "out"}
         \/ d.op = "idle" /\ d.pc = "idle"
  BY <1>3, <1>4, <1>5, <1>6, <1>7
<1>9. Known(d, s6'[p], s7'[p])
  BY <1>8 DEF Known, Serving
<1> QED
  BY <1>8, <1>9, MovesKeep

\* A request that comes knows what the tables say.
LEMMA RequestKeeps ==
    ASSUME AccessInv, Doors!Next, Doors!Watch, NEW p \in Procs, NEW token \in s4,
           NEW op \in Doors!OfMembers \cup OfOwners, NEW id \in Resources \cup {0},
           NEW at \in {"token", "list", "has"}, Doors!Request(p, op, id, token, at),
           at = "token" => op \in Doors!OfMembers,
           at \in {"list", "has"} => op \in OfOwners /\ id \in Resources,
           at = "list" => op = "resource"
    PROVE  AccessInv'
<1> DEFINE d == call'[p]
<1>1. /\ token.ddl \in Nat /\ token.ddl <= s2 /\ s1 \in Nat /\ s2 \in Nat
      /\ token.ssid \in 1..Len(s5) /\ token.ssid \in Nat
  BY DEF AccessInv, AccessType, KeptIsOld
<1>2. /\ d = [op |-> op, pc |-> at, id |-> id, ssid |-> token.ssid, ddl |-> token.ddl, now |-> s1,
             list |-> {}, failed |-> FALSE]
      /\ s5' = s5
  BY DEF Doors!Request, AccessInv, AccessType
<1>3. Visited(p, d)
  BY <1>1, <1>2 DEF Doors!Request, Visited, Doors!Tables, VisitType, Doors!OfMembers, OfOwners,
                    AccessInv, AccessType
<1>4. s6'[p] <=> s6[p] \/ Now(d)
  BY <1>2, <1>3, Moment
<1>5. Known(d, s6'[p], s7'[p])
  BY <1>1, <1>2, <1>4 DEF Known, Serving, Now
<1> QED
  BY <1>3, <1>5, MovesKeep

LEMMA MembershipKeeps ==
    ASSUME AccessInv, Doors!Next, Doors!Watch, NEW p \in Procs,
           Doors!CheckToken(p) \/ Doors!GetMembershipInfo(p) \/ Doors!Compare(p) \/ Doors!UpdateClaims(p)
    PROVE  AccessInv'
<1> DEFINE c == call[p]
           d == call'[p]
<1>1. /\ c \in VisitType /\ s1 \in Nat /\ s2 \in Nat /\ s3 \subseteq Resources
      /\ c.ddl <= s2 /\ c.list \subseteq s3 /\ c.now <= s1
      /\ Known(c, s6[p], s7[p])
  BY DEF AccessInv, AccessType, KeptIsOld
<1>2. c.ddl \in Nat /\ c.now \in Nat
  BY <1>1 DEF VisitType
<1>3. /\ c.op \in Doors!OfMembers /\ c.op # "login" /\ c.pc \in {"token", "info", "compare", "claims"}
      /\ c.ssid \in 1..Len(s5)
  BY <1>1 DEF Known, Serving, Doors!OfMembers, Doors!CheckToken, Doors!GetMembershipInfo,
              Doors!Compare, Doors!UpdateClaims
<1>4. ASSUME Doors!CheckToken(p)
      PROVE  AccessInv'
  <2>1. /\ \/ d = [c EXCEPT !.pc = IF Doors!Fresh(p) THEN "in" ELSE "info"]
           \/ d = [c EXCEPT !.pc = "out", !.failed = TRUE]
        /\ call' = [call EXCEPT ![p] = d]
    BY <1>4 DEF Doors!CheckToken, Doors!Goto, Doors!Failed, AccessInv, AccessType
  <2>2. Visited(p, d)
    BY <1>1, <1>4, <2>1, ZenonT(60) DEF Doors!CheckToken, Visited, Doors!Tables, VisitType
  <2>3. /\ d.op = c.op /\ d.now = c.now /\ d.ddl = c.ddl /\ d.ssid = c.ssid /\ c.pc = "token"
        /\ d.pc = (IF Doors!Fresh(p) THEN "in" ELSE "info") \/ (d.pc = "out" /\ d.failed)
    BY <1>1, <1>4, <2>1, ZenonT(60) DEF Doors!CheckToken, VisitType
  <2>4. s6'[p] <=> s6[p] \/ Now(d)
    BY <2>2, <2>3, Moment
  <2>5. Known(d, s6'[p], s7'[p])
    BY <1>1, <1>2, <1>3, <2>3, <2>4 DEF Known, Serving, Now, Doors!Fresh
  <2> QED
    BY <2>2, <2>5, MovesKeep
<1>5. ASSUME Doors!GetMembershipInfo(p)
      PROVE  AccessInv'
  <2>1. /\ d = [c EXCEPT !.ddl = s2, !.pc = "compare"] \/ d = [c EXCEPT !.pc = "out", !.failed = TRUE]
        /\ call' = [call EXCEPT ![p] = d]
    BY <1>5 DEF Doors!GetMembershipInfo, Doors!Failed, AccessInv, AccessType
  <2>6. d \in VisitType /\ d.ddl <= s2 /\ d.list = c.list /\ d.now = c.now
    <3>1. CASE d = [c EXCEPT !.ddl = s2, !.pc = "compare"]
      <4>1. d.ddl = s2 /\ d.list = c.list /\ d.now = c.now
        BY <1>1, <3>1 DEF VisitType
      <4>2. d \in VisitType
        BY <1>1, <3>1 DEF VisitType
      <4> QED
        BY <1>1, <4>1, <4>2
    <3>2. CASE d = [c EXCEPT !.pc = "out", !.failed = TRUE]
      BY <1>1, <3>2 DEF VisitType
    <3> QED
      BY <2>1, <3>1, <3>2
  <2>2. Visited(p, d)
    BY <1>1, <1>5, <2>1, <2>6, Reads DEF Doors!GetMembershipInfo
  <2>3. /\ d.op = c.op /\ d.now = c.now /\ d.ssid = c.ssid /\ c.pc = "info"
        /\ (d.pc = "compare" /\ d.ddl = s2) \/ (d.pc = "out" /\ d.failed)
    BY <1>1, <1>5, <2>1, ZenonT(120) DEF Doors!GetMembershipInfo, VisitType
  <2>4. s6'[p] <=> s6[p] \/ Now(d)
    BY <2>2, <2>3, Moment
  <2>5. Known(d, s6'[p], s7'[p])
    BY <1>1, <1>2, <1>3, <2>3, <2>4 DEF Known, Serving
  <2> QED
    BY <2>2, <2>5, MovesKeep
<1>6. ASSUME Doors!Compare(p)
      PROVE  AccessInv'
  <2>1. /\ d = [c EXCEPT !.pc = IF Doors!Expired(p) THEN "out" ELSE "claims"]
        /\ call' = [call EXCEPT ![p] = d]
    BY <1>6 DEF Doors!Compare, Doors!Goto, AccessInv, AccessType
  <2>2. Visited(p, d)
    BY <1>1, <1>6, <2>1 DEF Doors!Compare, Visited, Doors!Tables, VisitType
  <2>3. /\ d.op = c.op /\ d.now = c.now /\ d.ddl = c.ddl /\ d.ssid = c.ssid
        /\ d.pc = (IF Doors!Expired(p) THEN "out" ELSE "claims") /\ c.pc = "compare"
    BY <1>1, <1>6, <2>1 DEF Doors!Compare, VisitType
  <2>4. (s6'[p] <=> s6[p] \/ Now(d)) /\ (s7'[p] => Now(d))
    BY <2>2, <2>3, Moment
  <2>5. Known(d, s6'[p], s7'[p])
    BY <1>1, <1>2, <1>3, <2>3, <2>4 DEF Known, Serving, Now, Doors!Expired
  <2> QED
    BY <2>2, <2>5, MovesKeep
<1>7. ASSUME Doors!UpdateClaims(p)
      PROVE  AccessInv'
  <2>1. /\ d = [c EXCEPT !.pc = "in"] \/ d = [c EXCEPT !.pc = "out", !.failed = TRUE]
        /\ call' = [call EXCEPT ![p] = d]
        /\ s4' \subseteq s4 \cup {[ssid |-> c.ssid, ddl |-> c.ddl]} /\ s5' = s5
    BY <1>7 DEF Doors!UpdateClaims, Doors!Goto, AccessInv, AccessType
  <2>6. c.ssid \in 1..Len(s5)
    BY <1>1, <1>7 DEF Doors!UpdateClaims, Known, Serving
  <2>7. d \in VisitType /\ d.ddl = c.ddl /\ d.list = c.list /\ d.now = c.now
    BY <1>1, <2>1, ZenonT(60) DEF VisitType
  <2>8. \A t \in s4' \ s4 : t \in [ssid : 1..Len(s5'), ddl : Nat] /\ t.ddl <= s2
    BY <1>1, <1>2, <2>1, <2>6
  <2>2. Visited(p, d)
    BY <1>1, <1>7, <2>1, <2>7, <2>8 DEF Doors!UpdateClaims, Visited
  <2>3. d.op = c.op /\ c.pc = "claims" /\ (d.pc = "in" \/ (d.pc = "out" /\ d.failed))
    BY <1>1, <1>7, <2>1, ZenonT(60) DEF Doors!UpdateClaims, VisitType
  <2>4. s6'[p] <=> s6[p] \/ Now(d)
    BY <2>2, <2>3, Moment
  <2>5. Known(d, s6'[p], s7'[p])
    BY <1>1, <1>3, <2>3, <2>4 DEF Known, Serving
  <2> QED
    BY <2>2, <2>5, MovesKeep
<1> QED
  BY <1>4, <1>5, <1>6, <1>7

LEMMA PermissionKeeps ==
    ASSUME AccessInv, Doors!Next, Doors!Watch, NEW p \in Procs,
           Doors!CheckList(p) \/ Doors!HasPermission(p) \/ Doors!SetList(p)
    PROVE  AccessInv'
<1> DEFINE c == call[p]
           d == call'[p]
<1>1. /\ c \in VisitType /\ s1 \in Nat /\ s2 \in Nat /\ s3 \subseteq Resources
      /\ c.ddl <= s2 /\ c.list \subseteq s3 /\ c.now <= s1
      /\ Known(c, s6[p], s7[p])
      /\ \A s \in 1..Len(s5) : s5[s] = Doors!NoSession \/ s5[s] \subseteq s3
  BY DEF AccessInv, AccessType, KeptIsOld
<1>2. /\ c.op \in OfOwners /\ c.op \notin Doors!OfMembers /\ c.id \in Resources /\ c.op # "login"
      /\ c.ssid \in 1..Len(s5)
  BY <1>1 DEF Known, Serving, OfOwners, Doors!OfMembers, Doors!CheckList, Doors!HasPermission,
              Doors!SetList
<1>6. Doors!Mine(p) = Doors!NoSession \/ Doors!Mine(p) \subseteq s3
  BY <1>1, <1>2 DEF Doors!Mine
<1>3. ASSUME Doors!CheckList(p)
      PROVE  AccessInv'
  <2>1. /\ \/ /\ Doors!Mine(p) # Doors!NoSession
              /\ d = [c EXCEPT !.list = Doors!Mine(p), !.pc = IF c.id \in Doors!Mine(p) THEN "in" ELSE "has"]
           \/ Doors!Mine(p) = Doors!NoSession /\ d = [c EXCEPT !.pc = "out"]
           \/ d = [c EXCEPT !.pc = "out", !.failed = TRUE]
        /\ call' = [call EXCEPT ![p] = d]
    BY <1>3 DEF Doors!CheckList, Doors!Goto, Doors!Failed, AccessInv, AccessType
  <2>2. Visited(p, d)
    BY <1>1, <1>3, <1>6, <2>1, ZenonT(60) DEF Doors!CheckList, Visited, Doors!Tables, VisitType
  <2>3. /\ d.op = c.op /\ d.id = c.id /\ d.ssid = c.ssid /\ c.pc = "list"
        /\ \/ Doors!Mine(p) # Doors!NoSession /\ d.pc = "has"
           \/ Doors!Mine(p) # Doors!NoSession /\ d.pc = "in" /\ c.id \in Doors!Mine(p)
           \/ Doors!Mine(p) = Doors!NoSession /\ d.pc = "out"
           \/ d.pc = "out" /\ d.failed
    BY <1>1, <1>3, <2>1 DEF Doors!CheckList, VisitType
  <2>4. (s6'[p] <=> s6[p] \/ Now(d)) /\ (s7'[p] => Now(d))
    BY <2>2, <2>3, Moment
  <2>5. c.op = "resource" /\ s5' = s5 /\ s5'[d.ssid] = Doors!Mine(p)
    BY <1>1, <1>3, <2>3 DEF Doors!CheckList, Known, Serving, Doors!Mine
  <2>6. Known(d, s6'[p], s7'[p])
    BY <1>1, <1>2, <1>6, <2>2, <2>3, <2>4, <2>5 DEF Known, Now, Serving
  <2> QED
    BY <2>2, <2>6, MovesKeep
<1>4. ASSUME Doors!HasPermission(p)
      PROVE  AccessInv'
  <2>1. /\ \/ c.op = "resource" /\ c.id \in s3 /\ d = [c EXCEPT !.pc = "set"]
           \/ c.op # "resource" /\ c.id \in s3 /\ d = [c EXCEPT !.pc = "in"]
           \/ c.id \notin s3 /\ d = [c EXCEPT !.pc = "out"]
           \/ d = [c EXCEPT !.pc = "out", !.failed = TRUE]
        /\ call' = [call EXCEPT ![p] = d]
    BY <1>4 DEF Doors!HasPermission, Doors!Let, Doors!Goto, Doors!Failed, AccessInv, AccessType
  <2>2. Visited(p, d)
    BY <1>1, <1>4, <2>1, ZenonT(60) DEF Doors!HasPermission, Visited, Doors!Tables, VisitType
  <2>3. /\ d.op = c.op /\ d.id = c.id /\ d.ssid = c.ssid /\ c.pc = "has"
        /\ \/ c.op = "resource" /\ c.id \in s3 /\ d.pc = "set"
           \/ c.op # "resource" /\ c.id \in s3 /\ d.pc = "in"
           \/ c.id \notin s3 /\ d.pc = "out"
           \/ d.pc = "out" /\ d.failed
    BY <1>1, <1>4, <2>1, ZenonT(60) DEF Doors!HasPermission, VisitType
  <2>4. (s6'[p] <=> s6[p] \/ Now(d)) /\ (s7'[p] => Now(d))
    BY <2>2, <2>3, Moment
  <2>5. Known(d, s6'[p], s7'[p])
    BY <1>1, <1>2, <2>3, <2>4 DEF Known, Serving, Now
  <2> QED
    BY <2>2, <2>5, MovesKeep
<1>5. ASSUME Doors!SetList(p)
      PROVE  AccessInv'
  <2>1. /\ \/ Doors!Listed(p) /\ d = [c EXCEPT !.pc = "in"]
           \/ s5' = s5 /\ d = [c EXCEPT !.pc = "out", !.failed = TRUE]
        /\ call' = [call EXCEPT ![p] = d]
    BY <1>5 DEF Doors!SetList, Doors!Goto, Doors!Failed, AccessInv, AccessType
  <2>2. c.id \in s3 /\ c.pc = "set"
    BY <1>1, <1>5 DEF Doors!SetList, Known, Serving
  <2>3. Visited(p, d)
    BY <1>1, <1>5, <2>1, <2>2, ZenonT(60) DEF Doors!SetList, Visited, Doors!Tables, VisitType
  <2>4. /\ d.op = c.op /\ d.id = c.id /\ d.ssid = c.ssid
        /\ (d.pc = "in" /\ s5'[d.ssid] = c.list \cup {c.id}) \/ (d.pc = "out" /\ d.failed)
    <3>1. c.ssid \in DOMAIN s5 /\ c.list \cup {c.id} \in SUBSET s3
      BY <1>1, <1>2, <2>2 DEF AccessInv, AccessType
    <3>2. Doors!Listed(p) => s5'[c.ssid] = c.list \cup {c.id}
      BY <3>1, SessionsChange DEF Doors!Listed
    <3> QED
      BY <1>1, <2>1, <3>2 DEF VisitType
  <2>5. s6'[p] <=> s6[p] \/ Now(d)
    BY <2>3, <2>4, Moment
  <2>6. c.id # 0
    BY <1>2, AccountAssumption
  <2>7. Known(d, s6'[p], s7'[p])
    BY <1>2, <2>2, <2>4, <2>5, <2>6 DEF Known, Serving, Now, Doors!NoSession
  <2> QED
    BY <2>3, <2>7, MovesKeep
<1> QED
  BY <1>3, <1>4, <1>5

\* What others change lets more in, and ends only days and sessions.
LEMMA TheRestKeeps ==
    ASSUME AccessInv, Doors!Next, Doors!Watch, Doors!Others
    PROVE  AccessInv'
<1>1. call' = call /\ s4' = s4
  BY DEF Doors!Others, Doors!Tick, Doors!Extend, Doors!CreatePersonalPermission, Doors!Logout
<1>2. /\ s1' \in Nat /\ s2' \in Nat /\ s3' \subseteq Resources
      /\ s1 <= s1' /\ s2 <= s2' /\ s3 \subseteq s3'
  BY TablesGrow
<1>5. /\ s5' \in Seq(SUBSET (Resources \cup {0})) /\ Len(s5) <= Len(s5')
      /\ \A i \in 1..Len(s5') : s5'[i] = Doors!NoSession \/ s5'[i] \subseteq s3
      /\ Len(s5) \in Nat /\ Len(s5') \in Nat
  BY SessionsStay DEF AccessInv, AccessType
<1>3. AccessType'
  BY <1>1, <1>2, <1>5, WatchType DEF AccessInv, AccessType
<1>4. KeptIsOld'
  <2>1. \A p \in Procs : call[p].ddl \in Nat /\ call[p].now \in Nat
    BY DEF AccessInv, AccessType, VisitType
  <2>2. s1 \in Nat /\ s2 \in Nat
    BY DEF AccessInv, AccessType
  <2>3. \A t \in s4 : t.ddl \in Nat /\ t.ssid \in Nat
    BY DEF AccessInv, AccessType
  <2> QED
    BY <1>1, <1>2, <1>5, <2>1, <2>2, <2>3 DEF AccessInv, KeptIsOld
<1>6. \A p \in Procs : Known(call[p], s6[p], s7[p])'
  BY <1>1, OthersKnow
<1> QED
  BY <1>3, <1>4, <1>6 DEF AccessInv

LEMMA AccessNext == AccessInv /\ [Doors!Next]_Doors!accessVars => AccessInv'
<1> SUFFICES ASSUME AccessInv, [Doors!Next]_Doors!accessVars PROVE AccessInv'
  OBVIOUS
<1>1. CASE UNCHANGED Doors!accessVars
  BY <1>1 DEF Doors!accessVars, AccessInv, AccessType, KeptIsOld, Known, Serving
<1>2. ASSUME Doors!Next, Doors!Watch, NEW p \in Procs, NEW token \in s4,
             \/ Doors!CheckMembership(p, token) \/ Doors!CheckPermission(p, token)
             \/ Doors!QuestionDetail(p, token) \/ Doors!CaseDetail(p, token) \/ Doors!ProjectDetail(p, token)
      PROVE  AccessInv'
  BY <1>2, RequestKeeps DEF Doors!CheckMembership, Doors!CheckPermission, Doors!QuestionDetail,
                            Doors!CaseDetail, Doors!ProjectDetail, Doors!OfMembers, OfOwners
<1>3. ASSUME Doors!Next, Doors!Watch, NEW p \in Procs, Doors!Step(p)
      PROVE  AccessInv'
  BY <1>2, <1>3, LoginKeeps, MembershipKeeps, PermissionKeeps DEF Doors!Step
<1> QED
  BY <1>1, <1>3, TheRestKeeps DEF Doors!Next

LEMMA AccessInit == Doors!Init => AccessInv
BY DEF Doors!Init, AccessInv, AccessType, KeptIsOld, Known, Serving, VisitType, Doors!Idle

LEMMA AccessIsRight == AccessInv => Doors!LetInRightly /\ Doors!NotLockedOut
<1> SUFFICES ASSUME AccessInv PROVE Doors!LetInRightly /\ Doors!NotLockedOut
  OBVIOUS
<1>1. Doors!LetInRightly
  BY DEF AccessInv, KeptIsOld, Known, Serving, Doors!LetInRightly
<1>2. Doors!NotLockedOut
  BY DEF AccessInv, Known, Serving, Doors!NotLockedOut
<1> QED
  BY <1>1, <1>2

-----------------------------------------------------------------------------
(***************************************************************************)
(* A streamed answer.  What was taken is what was shown and what is still  *)
(* on its way: in the hand of recv, or in the channel, where nothing but   *)
(* deltas comes before the event that ends the answer, and that is there   *)
(* until the handler ends.                                                 *)
(***************************************************************************)
Over == recvPc \in {"record", "done"}

ChannelType ==
    /\ recvPc \in {"next", "send", "record", "done", "absent"}
    /\ event \in {"none", "delta", "error", "done"}
    /\ eventCh \in Seq({"delta", "error", "done"})
    /\ ending \in Streamed!Endings
    /\ taken \in Nat /\ shown \in Nat

\* An event that ends the answer is the last one.
EndsLast ==
    /\ Over => event \in {"done", "error"}
    /\ \A i \in 1 .. Len(eventCh) : eventCh[i] # "delta" => Over /\ i = Len(eventCh) /\ eventCh[i] = event
    /\ recvPc = "next" => event # "error"
    /\ recvPc = "send" => event # "none"
    /\ closed => recvPc = "done"

\* Chunks on their way to the client.
Coming ==
    Len(eventCh) + (IF recvPc = "send" /\ event # "done" THEN 1 ELSE 0)
                 - (IF Over /\ event = "done" THEN 1 ELSE 0)

NothingIsLost ==
    /\ recvPc = "absent" =>
          /\ eventCh = <<>>
          /\ ending # "gone" => shown = taken
          /\ event = "error" => ending # "end"
          /\ ending = "none" => event # "error"
    /\ recvPc # "absent" /\ ending = "none" =>
          /\ taken = shown + Coming
          /\ Over => eventCh # <<>> /\ eventCh[Len(eventCh)] = event
    /\ recvPc # "absent" /\ ending = "end" => Over /\ event = "done" /\ shown = taken
    /\ recvPc = "done" /\ event = "error" => record = "failed"

StreamInv == ChannelType /\ EndsLast /\ NothingIsLost

LEMMA RecvKeeps == ASSUME StreamInv, Streamed!recv PROVE StreamInv'
<1> USE DEF StreamInv, ChannelType, Streamed!Endings
<1>1. CASE Streamed!NextChunk
  <2>1. /\ eventCh' = eventCh /\ ending' = ending /\ shown' = shown /\ closed' = closed
        /\ recvPc = "next" /\ recvPc' = "send"
    BY <1>1 DEF Streamed!NextChunk
  <2>2. /\ event' \in {"delta", "error", "done"} /\ taken' \in Nat
        /\ event' = "done" => taken' = taken
        /\ event' # "done" => taken' = taken + 1
    BY <1>1 DEF Streamed!NextChunk
  <2>3. ChannelType' /\ EndsLast'
    BY <2>1, <2>2 DEF EndsLast, Over
  <2>4. ending # "end"
    BY <2>1 DEF NothingIsLost, Over
  <2>5. ending = "none" => taken = shown + Len(eventCh)
    BY <2>1 DEF NothingIsLost, Over, Coming
  <2> QED
    BY <2>1, <2>2, <2>3, <2>4, <2>5 DEF NothingIsLost, Over, Coming
<1>2. CASE Streamed!Send
  <2>1. /\ recvPc = "send" /\ eventCh' = Append(eventCh, event)
        /\ recvPc' = IF event = "delta" THEN "next" ELSE "record"
        /\ event' = event /\ ending' = ending /\ shown' = shown /\ taken' = taken
        /\ closed' = closed
    BY <1>2 DEF Streamed!Send
  <2>2. event \in {"delta", "error", "done"}
    BY <2>1 DEF EndsLast
  <2>3. /\ eventCh' \in Seq({"delta", "error", "done"})
        /\ Len(eventCh') = Len(eventCh) + 1
        /\ eventCh'[Len(eventCh')] = event
        /\ \A i \in 1 .. Len(eventCh) : eventCh'[i] = eventCh[i]
    BY <2>1, <2>2
  <2>4. \A i \in 1 .. Len(eventCh) : eventCh[i] = "delta"
    BY <2>1 DEF EndsLast, Over
  <2>5. EndsLast'
    BY <2>1, <2>2, <2>3, <2>4 DEF EndsLast, Over
  <2>6. NothingIsLost'
    BY <2>1, <2>2, <2>3 DEF NothingIsLost, Over, Coming
  <2> QED
    BY <2>1, <2>3, <2>5, <2>6
<1>3. CASE Streamed!SaveRecord
  BY <1>3 DEF Streamed!SaveRecord, EndsLast, NothingIsLost, Over, Coming
<1> QED
  BY <1>1, <1>2, <1>3 DEF Streamed!recv

LEMMA HandlerKeeps == ASSUME StreamInv, Streamed!handler \/ Streamed!Disconnect \/ UNCHANGED Streamed!streamVars PROVE StreamInv'
<1> USE DEF StreamInv, ChannelType, Streamed!Endings
<1>1. ASSUME Streamed!HandlerReads, eventCh # <<>>
      PROVE  StreamInv'
  <2>1. /\ recvPc # "absent" /\ ending = "none"
        /\ eventCh' = Tail(eventCh)
        /\ ending' = Streamed!EndOf(Head(eventCh))
        /\ shown' = IF Head(eventCh) = "delta" THEN shown + 1 ELSE shown
        /\ recvPc' = recvPc /\ event' = event /\ taken' = taken /\ record' = record
    BY <1>1 DEF Streamed!HandlerReads
  <2>2. /\ Len(eventCh) \in Nat \ {0} /\ Len(eventCh') = Len(eventCh) - 1
        /\ eventCh' \in Seq({"delta", "error", "done"})
        /\ Head(eventCh) = eventCh[1]
        /\ \A i \in 1 .. Len(eventCh') : eventCh'[i] = eventCh[i + 1]
    BY <1>1, <2>1
  <2>3. EndsLast'
    <3>1. ASSUME NEW i \in 1 .. Len(eventCh'), eventCh'[i] # "delta"
          PROVE  Over /\ i = Len(eventCh') /\ eventCh'[i] = event
      <4>1. i + 1 \in 1 .. Len(eventCh) /\ eventCh'[i] = eventCh[i + 1]
        BY <2>2
      <4>2. Over /\ i + 1 = Len(eventCh) /\ eventCh[i + 1] = event
        BY <3>1, <4>1 DEF EndsLast
      <4> QED
        BY <2>2, <4>1, <4>2
    <3>2. closed' = closed
      BY <1>1 DEF Streamed!HandlerReads
    <3> QED
      BY <2>1, <3>1, <3>2 DEF EndsLast, Over
  <2>4. CASE Head(eventCh) = "delta"
    <3>1. ending' = "none" /\ shown' = shown + 1
      BY <2>1, <2>4 DEF Streamed!EndOf
    <3>2. Over => eventCh' # <<>> /\ eventCh'[Len(eventCh')] = event
      <4> SUFFICES ASSUME Over PROVE eventCh' # <<>> /\ eventCh'[Len(eventCh')] = event
        OBVIOUS
      <4>1. eventCh[Len(eventCh)] = event /\ event # "delta"
        BY <2>1 DEF NothingIsLost, EndsLast
      <4>2. Len(eventCh) # 1
        BY <2>2, <2>4, <4>1
      <4> QED
        BY <2>2, <4>1, <4>2
    <3>3. taken = shown + Coming
      BY <2>1 DEF NothingIsLost
    <3>4. Coming' = Coming - 1
      BY <2>1, <2>2 DEF Coming, Over
    <3>a. Coming \in Int
      BY <2>2 DEF Coming
    <3>5. taken' = shown' + Coming'
      <4> HIDE DEF Coming
      <4> QED BY <2>1, <3>1, <3>3, <3>4, <3>a
    <3>6. ChannelType'
      BY <2>1, <2>2, <3>1
    <3> QED
      BY <2>1, <2>3, <3>1, <3>2, <3>5, <3>6 DEF NothingIsLost, Over
  <2>5. CASE Head(eventCh) # "delta"
    <3>1. Over /\ Len(eventCh) = 1 /\ Head(eventCh) = event
      BY <2>2, <2>5 DEF EndsLast
    <3>2. shown' = shown /\ ending' = IF event = "done" THEN "end" ELSE "error"
      BY <2>1, <3>1 DEF Streamed!EndOf, EndsLast
    <3>3. event = "done" => shown = taken
      BY <2>1, <3>1 DEF NothingIsLost, Coming, Over
    <3> QED
      BY <2>1, <2>2, <2>3, <3>1, <3>2, <3>3 DEF NothingIsLost, Over, Coming
  <2> QED
    BY <2>4, <2>5
<1>2. ASSUME Streamed!HandlerReads, eventCh = <<>>
      PROVE  StreamInv'
  <2>1. closed /\ recvPc # "absent" /\ ending = "none"
    BY <1>2 DEF Streamed!HandlerReads
  <2>2. Over => eventCh # <<>>
    BY <2>1 DEF NothingIsLost
  <2> QED
    BY <1>2, <2>1, <2>2 DEF EndsLast, Over
<1>3. CASE Streamed!HandlerLeaves
  BY <1>3 DEF Streamed!HandlerLeaves, EndsLast, NothingIsLost, Over, Coming
<1>4. CASE Streamed!Relay
  <2>1. /\ recvPc = "absent" /\ ending = "none" /\ recvPc' = recvPc /\ eventCh' = eventCh
        /\ record' = record
    BY <1>4 DEF Streamed!Relay
  <2>2. eventCh = <<>> /\ Len(eventCh) = 0 /\ shown = taken
    BY <2>1 DEF NothingIsLost
  <2> QED
    BY <1>4, <2>1, <2>2 DEF Streamed!Relay, Streamed!RelayMessage, Streamed!EndOf, EndsLast,
                            NothingIsLost, Over, Coming
<1>5. CASE Streamed!Disconnect \/ UNCHANGED Streamed!streamVars
  <2>1. UNCHANGED <<recvPc, event, record, eventCh, closed, ending, taken, shown>>
    BY <1>5 DEF Streamed!Disconnect, Streamed!streamVars
  <2>2. Over' = Over /\ Coming' = Coming
    BY <2>1 DEF Over, Coming
  <2>3. ChannelType' /\ EndsLast'
    BY <2>1, <2>2 DEF EndsLast
  <2>4. NothingIsLost'
    BY <2>1, <2>2 DEF NothingIsLost
  <2> QED
    BY <2>3, <2>4
<1> QED
  BY <1>1, <1>2, <1>3, <1>4, <1>5 DEF Streamed!handler

LEMMA StreamInit == Streamed!Init => StreamInv
BY DEF Streamed!Init, StreamInv, ChannelType, Streamed!Endings, EndsLast, NothingIsLost, Over,
       Coming

LEMMA StreamNext == StreamInv /\ [Streamed!Next]_Streamed!streamVars => StreamInv'
BY RecvKeeps, HandlerKeeps DEF Streamed!Next

LEMMA StreamIsRight == StreamInv => Streamed!EndShowsAll /\ Streamed!ErrorsAreTold
BY DEF StreamInv, ChannelType, NothingIsLost, EndsLast, Streamed!EndShowsAll,
       Streamed!ErrorsAreTold, Over, Streamed!Endings

-----------------------------------------------------------------------------
(***************************************************************************)
(* Calls of a language model.                                              *)
(***************************************************************************)
Entry == [uid : {RunnerOf[r] : r \in Runs}, change : Int,
          status : {"Active", "Locked", "Inactive"}]

PcLabel == {"config", "check", "ask", "log", "hold", "spend", "cancel", "failed", "success", "done"}

PaidType ==
    /\ s1 \subseteq [id : Nat, biz : {BizOfRun[r] : r \in Runs}, price : Prices]
    /\ pc \in [Runs -> PcLabel]
    /\ s4 \in [Runs -> Prices \cup {-1}]
    /\ price \in [Runs -> Int]
    /\ entry \in [Runs -> Entry \cup {absent}]
    /\ creditRow \in [Runs -> {"none", "processing", "success", "failed"}]
    /\ outcome \in [Runs -> {"none", "answer", "insufficient", "error"}]

Held(r) == entry[r] # absent
Active(r) == Held(r) /\ entry[r].status = "Active"

\* Before the hold there is no entry; while it may be spent, it is of the price;
\* whoever has spent it gets the answer; rows are settled at the end.
PaidCall(r) ==
    /\ pc[r] \in {"config", "check", "ask", "log", "hold"} => ~Held(r)
    /\ pc[r] \in {"check", "ask"} => s4[r] # -1
    /\ pc[r] \in {"spend", "cancel", "success"} => Held(r)
    /\ Held(r) => entry[r].change = -price[r]
    /\ pc[r] = "success" => Active(r)
    /\ Active(r) => pc[r] = "success" \/ outcome[r] = "answer" \/ r \in lost
    /\ outcome[r] = "answer" => IF Held(r) THEN Active(r) ELSE price[r] = 0
    /\ pc[r] # "done" => outcome[r] = "none" /\ creditRow[r] \in {"none", "processing"}
    /\ creditRow[r] = "success" => Active(r)
    /\ creditRow[r] = "failed" /\ r \notin lost => ~Active(r)

\* Rows have one id and one business each, and the price saved last; a call has
\* the price that was last when it read it.
ConfigInv ==
    /\ IsFiniteSet(s1)
    /\ \A c \in s1 : c.id \in 1 .. Cardinality(s1) /\ s3[c.biz] = c.price
    /\ \A c, d \in s1 : c.id = d.id \/ c.biz = d.biz => c = d
    /\ s3 \in [{BizOfRun[r] : r \in Runs} -> Prices \cup {-1}]
    /\ s5 \in [Runs -> Prices \cup {-1}]
    /\ \A r \in Runs : s4[r] = s5[r]

PaidInv == PaidType /\ ConfigInv /\ \A r \in Runs : PaidCall(r)

\* An amount is a number, and nothing is charged for a free call.
LEMMA AmountFacts ==
    ASSUME NEW p \in Prices, NEW t \in Tokens
    PROVE  Paid!Amount(p, t) \in Int /\ (p = 0 => Paid!Amount(p, t) = 0)
<1>1. p \in Nat /\ t \in Nat
  BY CommunityAssumption
<1>2. p * t \in Nat
  BY <1>1
<1>3. p = 0 => p * t = 0
  BY <1>1
<1> DEFINE x == p * t
<1>4. (x + 999) \div 1000 \in Int /\ (x = 0 => (x + 999) \div 1000 = 0)
  <2> HIDE DEF x
  <2>1. x \in Nat => (x + 999) \div 1000 \in Int /\ (x = 0 => (x + 999) \div 1000 = 0)
    OBVIOUS
  <2> QED
    BY <2>1, <1>2 DEF x
<1> QED
  BY <1>3, <1>4 DEF Paid!Amount

\* What is not the call's stays as it is.
Aside(r) ==
    \A q \in Runs \ {r} :
        /\ pc'[q] = pc[q] /\ s4'[q] = s4[q] /\ price'[q] = price[q] /\ entry'[q] = entry[q]
        /\ creditRow'[q] = creditRow[q] /\ outcome'[q] = outcome[q]
        /\ q \in lost' <=> q \in lost

LEMMA OthersKeep ==
    ASSUME PaidInv, NEW r \in Runs, PaidType', ConfigInv', PaidCall(r)', Aside(r)
    PROVE  PaidInv'
<1> SUFFICES ASSUME NEW q \in Runs \ {r} PROVE PaidCall(q)'
  BY DEF PaidInv
<1> QED
  BY DEF PaidInv, PaidCall, Aside, Held, Active

LEMMA HandleKeeps ==
    ASSUME PaidInv, NEW r \in Runs, Paid!Handle(r)
    PROVE  PaidInv'
<1> USE DEF Paid!Goto, Paid!Return, Paid!ledgerVars, Paid!configVars
<1>0. PaidType /\ PaidCall(r) /\ absent \notin Entry
  BY CommunityAssumption DEF PaidInv, Entry
<1> SUFFICES PaidType' /\ ConfigInv' /\ PaidCall(r)' /\ Aside(r)
  BY OthersKeep
<1>c. ConfigInv
  BY DEF PaidInv
<1>1. CASE Paid!GetConfig(r)
  <2> DEFINE rows == {c \in s1 : c.biz = BizOfRun[r]}
  <2>0. rows # {} =>
            (CHOOSE c \in rows : \A d \in rows : c.id <= d.id) \in rows
    BY <1>0 DEF PaidType, PaidInv, ConfigInv
  <2>1. PaidType'
    BY <1>0, <1>1, <2>0 DEF Paid!GetConfig, PaidType, PaidCall, PcLabel
  <2> DEFINE first == CHOOSE c \in rows : \A d \in rows : c.id <= d.id
  <2>a. rows # {} => first.price = s3[BizOfRun[r]] /\ first.price \in Prices /\ first.price # -1
    BY <1>0, <1>c, <2>0, CommunityAssumption DEF PaidType, ConfigInv
  <2>2. PaidCall(r)'
    BY <1>0, <1>1, <2>a DEF Paid!GetConfig, PaidType, PaidCall, Held, Active
  <2>3. Aside(r)
    BY <1>0, <1>1 DEF Paid!GetConfig, PaidType, Aside
  <2>4. ConfigInv'
    BY <1>0, <1>c, <1>1, <2>a DEF Paid!GetConfig, ConfigInv, PaidType
  <2> QED
    BY <2>1, <2>2, <2>3, <2>4
<1>2. CASE Paid!GetCredits(r)
  <2>1. PaidType'
    BY <1>0, <1>2 DEF Paid!GetCredits, PaidType, PaidCall, PcLabel
  <2>2. PaidCall(r)'
    BY <1>0, <1>2 DEF Paid!GetCredits, PaidType, PaidCall, Held, Active
  <2>3. Aside(r)
    BY <1>0, <1>2 DEF Paid!GetCredits, PaidType, Aside
  <2>4. ConfigInv'
    BY <1>c, <1>2 DEF Paid!GetCredits, ConfigInv
  <2> QED
    BY <2>1, <2>2, <2>3, <2>4
<1>3. CASE Paid!Ask(r)
  <2>1. PaidType'
    BY <1>0, <1>3, AmountFacts DEF Paid!Ask, Paid!PriceOf, Paid!Answered, Paid!Recorded, PaidType,
                                   PaidCall, PcLabel
  <2>2. PaidCall(r)'
    BY <1>0, <1>3, AmountFacts DEF Paid!Ask, Paid!PriceOf, Paid!Answered, Paid!Recorded, PaidType,
                                   PaidCall, Held, Active
  <2>3. Aside(r)
    BY <1>0, <1>3 DEF Paid!Ask, Paid!PriceOf, Paid!Answered, Paid!Recorded, PaidType, Aside
  <2>4. ConfigInv'
    BY <1>c, <1>3 DEF Paid!Ask, ConfigInv
  <2> QED
    BY <2>1, <2>2, <2>3, <2>4
<1>4. CASE Paid!SaveCredit(r)
  <2>1. PaidType'
    BY <1>0, <1>4 DEF Paid!SaveCredit, Paid!creditSaved, PaidType, PaidCall, PcLabel
  <2>2. PaidCall(r)'
    BY <1>0, <1>4 DEF Paid!SaveCredit, Paid!creditSaved, PaidType, PaidCall, Held, Active
  <2>3. Aside(r)
    BY <1>0, <1>4 DEF Paid!SaveCredit, Paid!creditSaved, PaidType, Aside
  <2>4. ConfigInv'
    BY <1>c, <1>4 DEF Paid!SaveCredit, ConfigInv
  <2> QED
    BY <2>1, <2>2, <2>3, <2>4
<1>5. CASE Paid!TryDeduct(r)
  <2>1. PaidType'
    BY <1>0, <1>5 DEF Paid!TryDeduct, Paid!Ledger!Hold, Paid!Ledger!LedgerEntry, PaidType,
                      PaidCall, PcLabel, Entry
  <2>2. PaidCall(r)'
    BY <1>0, <1>5 DEF Paid!TryDeduct, Paid!Ledger!Hold, Paid!Ledger!LedgerEntry, PaidType,
                      PaidCall, Held, Active, Entry
  <2>3. Aside(r)
    BY <1>0, <1>5 DEF Paid!TryDeduct, Paid!Ledger!Hold, Paid!Ledger!LedgerEntry, PaidType, Aside
  <2>4. ConfigInv'
    BY <1>c, <1>5 DEF Paid!TryDeduct, ConfigInv
  <2> QED
    BY <2>1, <2>2, <2>3, <2>4
<1>6. CASE Paid!ConfirmDeduct(r)
  <2>1. PaidType'
    BY <1>0, <1>6 DEF Paid!ConfirmDeduct, Paid!Ledger!Spend, PaidType, PaidCall, PcLabel, Entry
  <2>2. PaidCall(r)'
    BY <1>0, <1>6 DEF Paid!ConfirmDeduct, Paid!Ledger!Spend, PaidType, PaidCall, Held, Active,
                      Entry
  <2>3. Aside(r)
    BY <1>0, <1>6 DEF Paid!ConfirmDeduct, Paid!Ledger!Spend, PaidType, Aside
  <2>4. ConfigInv'
    BY <1>c, <1>6 DEF Paid!ConfirmDeduct, ConfigInv
  <2> QED
    BY <2>1, <2>2, <2>3, <2>4
<1>7. CASE Paid!CancelDeduct(r)
  <2>1. PaidType'
    BY <1>0, <1>7 DEF Paid!CancelDeduct, Paid!Ledger!Release, PaidType, PaidCall, PcLabel, Entry
  <2>2. PaidCall(r)'
    BY <1>0, <1>7 DEF Paid!CancelDeduct, Paid!Ledger!Release, PaidType, PaidCall, Held, Active,
                      Entry
  <2>3. Aside(r)
    BY <1>0, <1>7 DEF Paid!CancelDeduct, Paid!Ledger!Release, PaidType, Aside
  <2>4. ConfigInv'
    BY <1>c, <1>7 DEF Paid!CancelDeduct, ConfigInv
  <2> QED
    BY <2>1, <2>2, <2>3, <2>4
<1>8. CASE Paid!SaveFailed(r)
  <2>1. PaidType'
    BY <1>0, <1>8 DEF Paid!SaveFailed, Paid!creditSaved, PaidType, PaidCall, PcLabel
  <2>2. PaidCall(r)'
    BY <1>0, <1>8 DEF Paid!SaveFailed, Paid!creditSaved, PaidType, PaidCall, Held, Active
  <2>3. Aside(r)
    BY <1>0, <1>8 DEF Paid!SaveFailed, Paid!creditSaved, PaidType, Aside
  <2>4. ConfigInv'
    BY <1>c, <1>8 DEF Paid!SaveFailed, ConfigInv
  <2> QED
    BY <2>1, <2>2, <2>3, <2>4
<1>9. CASE Paid!SaveSuccess(r)
  <2>1. PaidType'
    BY <1>0, <1>9 DEF Paid!SaveSuccess, Paid!creditSaved, PaidType, PaidCall, PcLabel
  <2>2. PaidCall(r)'
    BY <1>0, <1>9 DEF Paid!SaveSuccess, Paid!creditSaved, PaidType, PaidCall, Held, Active
  <2>3. Aside(r)
    BY <1>0, <1>9 DEF Paid!SaveSuccess, Paid!creditSaved, PaidType, Aside
  <2>4. ConfigInv'
    BY <1>c, <1>9 DEF Paid!SaveSuccess, ConfigInv
  <2> QED
    BY <2>1, <2>2, <2>3, <2>4
<1> QED
  BY <1>1, <1>2, <1>3, <1>4, <1>5, <1>6, <1>7, <1>8, <1>9 DEF Paid!Handle

\* The process of a call stops, or the credit module releases its hold.
LEMMA EndsKeep ==
    ASSUME PaidInv, NEW r \in Runs, Paid!Crash(r) \/ Paid!ReleaseTimeoutHold(r)
    PROVE  PaidInv'
<1> USE DEF Paid!Return, Paid!ledgerVars, Paid!configVars
<1>0. PaidType /\ PaidCall(r) /\ absent \notin Entry
  BY CommunityAssumption DEF PaidInv, Entry
<1> SUFFICES PaidType' /\ ConfigInv' /\ PaidCall(r)' /\ Aside(r)
  BY OthersKeep
<1>c. ConfigInv
  BY DEF PaidInv
<1>1. CASE Paid!Crash(r)
  <2>1. PaidType'
    BY <1>0, <1>1 DEF Paid!Crash, PaidType, PcLabel
  <2>2. PaidCall(r)'
    BY <1>0, <1>1 DEF Paid!Crash, PaidType, PaidCall, Held, Active
  <2>3. Aside(r)
    BY <1>0, <1>1 DEF Paid!Crash, PaidType, Aside
  <2>4. ConfigInv'
    BY <1>c, <1>1 DEF Paid!Crash, ConfigInv
  <2> QED
    BY <2>1, <2>2, <2>3, <2>4
<1>2. CASE Paid!ReleaseTimeoutHold(r)
  <2> USE DEF Paid!Ledger!Release, Entry
  <2>1. PaidType'
    BY <1>0, <1>2 DEF Paid!ReleaseTimeoutHold, PaidType, PcLabel
  <2>2. PaidCall(r)'
    BY <1>0, <1>2 DEF Paid!ReleaseTimeoutHold, PaidType, PaidCall, Held, Active
  <2>3. Aside(r)
    BY <1>0, <1>2 DEF Paid!ReleaseTimeoutHold, PaidType, Aside
  <2>4. ConfigInv'
    BY <1>c, <1>2 DEF Paid!ReleaseTimeoutHold, ConfigInv
  <2> QED
    BY <2>1, <2>2, <2>3, <2>4
<1> QED
  BY <1>1, <1>2

\* Cardinalities are the same operator in every module.
LEMMA PaidNumbers == ASSUME NEW S PROVE Paid!Cardinality(S) = Cardinality(S)
BY DEF Paid!Cardinality, Cardinality

\* A form replaces the row that has its id or, without one, its business; no
\* two rows come to share either.
LEMMA SaveKeeps ==
    ASSUME PaidInv, NEW f \in Paid!Forms, Paid!Save(f)
    PROVE  PaidInv'
<1> DEFINE same == {c \in Paid!Duplicates(f) : c.id = f.id}
           old == IF same = {} THEN Paid!Duplicates(f) ELSE same
           id == IF old = {} THEN Paid!NextId ELSE (CHOOSE c \in old : TRUE).id
           row == [id |-> id, biz |-> f.biz, price |-> f.price]
           Biz == {BizOfRun[r] : r \in Runs}
<1>0. PaidType /\ ConfigInv
  BY DEF PaidInv
<1>1. /\ s1' = (s1 \ old) \cup {row}
      /\ Paid!Duplicates(f) \subseteq old
      /\ s3' = [b \in Biz |-> IF b = f.biz THEN f.price
                              ELSE IF \E c \in old : c.biz = b THEN -1 ELSE s3[b]]
      /\ UNCHANGED <<s4, s5, available, held, entry, pc, price, creditRow, outcome, lost>>
  BY DEF Paid!Save, Paid!Bizs, Paid!None, Paid!ledgerVars
<1>2. f.biz \in Biz /\ f.price \in Prices /\ f.price \in Nat
  BY CommunityAssumption DEF Paid!Forms, Paid!Bizs
<1>3. old \subseteq s1 /\ \A c, d \in old : c = d
  BY <1>0, <1>1 DEF Paid!Duplicates, ConfigInv
<1>n. IsFiniteSet(s1) /\ Cardinality(s1) \in Nat
  BY <1>0, FS_CardinalityType DEF ConfigInv
<1>m. old = {} => id = 1 + Cardinality(s1)
  <2>1. Paid!NextId = 1 + Cardinality(s1)
    BY PaidNumbers DEF Paid!NextId
  <2>2. old = {} => id = Paid!NextId
    <3> HIDE DEF old
    <3> QED OBVIOUS
  <2> QED
    BY <2>1, <2>2
<1>4. \A c \in s1 \ old : c.id # id /\ c.biz # f.biz
  <2>1. \A c \in s1 \ old : c.biz # f.biz
    BY <1>1 DEF Paid!Duplicates
  <2>2. CASE old = {}
    <3> HIDE DEF id, old
    <3> QED BY <2>1, <2>2, <1>0, <1>n, <1>m DEF ConfigInv
  <2>3. CASE old # {}
    BY <2>1, <2>3, <1>0, <1>3 DEF ConfigInv
  <2> QED
    BY <2>2, <2>3
<1>5. /\ IsFiniteSet(s1') /\ Cardinality(s1') \in Nat /\ Cardinality(s1') >= Cardinality(s1)
      /\ id \in 1 .. Cardinality(s1')
  <2>0. IsFiniteSet(s1) /\ Cardinality(s1) \in Nat
    BY <1>n
  <2>1. row \notin s1 \ old
    BY <1>4
  <2>2. IsFiniteSet(s1 \ old)
    BY <2>0, FS_Difference
  <2>3. IsFiniteSet((s1 \ old) \cup {row}) /\ Cardinality((s1 \ old) \cup {row}) = Cardinality(s1 \ old) + 1
    <3> HIDE DEF row, old
    <3> QED BY <2>1, <2>2, FS_AddElement
  <2>4. CASE old = {}
    <3>1. s1 \ old = s1
      BY <2>4
    <3> HIDE DEF id, old, row
    <3> QED BY <1>1, <1>m, <2>0, <2>3, <2>4, <3>1
  <2>5. CASE old # {}
    <3>1. PICK c \in s1 : old = {c}
      BY <1>3, <2>5
    <3>2. Cardinality(s1 \ {c}) = Cardinality(s1) - 1
      BY <2>0, FS_RemoveElement
    <3>3. id = c.id /\ c.id \in 1 .. Cardinality(s1)
      BY <1>0, <3>1 DEF ConfigInv
    <3>4. Cardinality(s1') = Cardinality(s1)
      <4>1. s1 \ old = s1 \ {c}
        BY <3>1
      <4>2. Cardinality(s1 \ old) = Cardinality(s1) - 1
        BY <3>2, <4>1
      <4>3. s1' = (s1 \ old) \cup {row}
        BY <1>1
      <4> HIDE DEF id, old, row
      <4> QED BY <2>0, <2>3, <4>2, <4>3
    <3> QED
      BY <1>1, <2>0, <2>3, <3>3, <3>4
  <2> QED
    BY <2>4, <2>5
<1>6. ConfigInv'
  <2> HIDE DEF old, id
  <2>1. \A c \in s1' : c = row \/ (c \in s1 \ old)
    BY <1>1
  <2>2. row.id = id /\ row.biz = f.biz /\ row.price = f.price
    OBVIOUS
  <2> HIDE DEF row
  <2>3. \A c \in s1' : c.id \in 1 .. Cardinality(s1')
    BY <1>0, <1>5, <2>1, <2>2, FS_CardinalityType DEF ConfigInv
  <2>4. \A c, d \in s1' : c.id = d.id \/ c.biz = d.biz => c = d
    BY <1>0, <1>4, <2>1, <2>2 DEF ConfigInv
  <2>5. \A c \in s1' : s3'[c.biz] = c.price
    <3> SUFFICES ASSUME NEW c \in s1' PROVE s3'[c.biz] = c.price
      OBVIOUS
    <3>1. CASE c = row
      BY <1>1, <1>2, <2>2, <3>1
    <3>2. CASE c \in s1 \ old
      <4>1. c.biz \in Biz /\ c.biz # f.biz
        BY <1>0, <1>4, <3>2 DEF PaidType
      <4>2. ~\E d \in old : d.biz = c.biz
        BY <1>0, <1>3, <3>2 DEF ConfigInv
      <4> QED
        BY <1>0, <1>1, <3>2, <4>1, <4>2 DEF ConfigInv
    <3> QED
      BY <2>1, <3>1, <3>2
  <2>6. s3' \in [Biz -> Prices \cup {-1}]
    BY <1>0, <1>1, <1>2 DEF ConfigInv
  <2> QED
    BY <1>0, <1>1, <1>5, <2>3, <2>4, <2>5, <2>6 DEF ConfigInv
<1>7. PaidType'
  <2>1. id \in Nat
    BY <1>5
  <2>2. row \in [id : Nat, biz : Biz, price : Prices]
    BY <1>2, <2>1
  <2> HIDE DEF row, old
  <2> QED
    BY <1>0, <1>1, <2>2 DEF PaidType
<1>8. \A r \in Runs : PaidCall(r)'
  BY <1>1 DEF PaidInv, PaidCall, Held, Active
<1> QED
  BY <1>6, <1>7, <1>8 DEF PaidInv

LEMMA PaidNext == PaidInv /\ [Paid!Next]_Paid!llmvars => PaidInv'
<1> SUFFICES ASSUME PaidInv, [Paid!Next]_Paid!llmvars PROVE PaidInv'
  OBVIOUS
<1>1. CASE UNCHANGED Paid!llmvars
  BY <1>1 DEF PaidInv, PaidType, ConfigInv, PaidCall, Held, Active, Paid!llmvars, Paid!configVars
<1>2. ASSUME NEW r \in Runs, Paid!Handle(r) \/ Paid!Crash(r) \/ Paid!ReleaseTimeoutHold(r)
      PROVE  PaidInv'
  BY <1>2, HandleKeeps, EndsKeep
<1>3. ASSUME NEW f \in Paid!Forms, Paid!Save(f)
      PROVE  PaidInv'
  BY <1>3, SaveKeeps
<1> QED
  BY <1>1, <1>2, <1>3 DEF Paid!Next

LEMMA PaidInit == Paid!Init => PaidInv
<1> SUFFICES ASSUME Paid!Init PROVE PaidInv
  OBVIOUS
<1>1. PaidType
  BY DEF Paid!Init, PaidType, PcLabel, Paid!None
<1>2. ConfigInv
  BY FS_EmptySet DEF Paid!Init, ConfigInv, Paid!None, Paid!Bizs
<1>3. \A r \in Runs : PaidCall(r)
  BY DEF Paid!Init, PaidCall, Held, Active
<1> QED
  BY <1>1, <1>2, <1>3 DEF PaidInv

LEMMA PaidIsRight ==
    PaidInv => /\ Paid!AnswersArePaid /\ Paid!PricesAreLast
               /\ Paid!PaymentsAreAnswered /\ Paid!RowsTellTheLedger
<1> SUFFICES ASSUME PaidInv
             PROVE  /\ Paid!AnswersArePaid /\ Paid!PricesAreLast
                    /\ Paid!PaymentsAreAnswered /\ Paid!RowsTellTheLedger
  OBVIOUS
<1>1. \A r \in Runs : PaidCall(r)
  BY DEF PaidInv
<1>2. Paid!AnswersArePaid
  BY <1>1 DEF PaidCall, Held, Active, Paid!AnswersArePaid
<1>3. Paid!PricesAreLast
  BY DEF PaidInv, ConfigInv, Paid!PricesAreLast
<1>4. Paid!PaymentsAreAnswered
  BY <1>1 DEF PaidCall, Held, Active, Paid!PaymentsAreAnswered
<1>5. Paid!RowsTellTheLedger
  BY <1>1 DEF PaidCall, Held, Active, Paid!RowsTellTheLedger
<1> QED
  BY <1>2, <1>3, <1>4, <1>5

-----------------------------------------------------------------------------
(***************************************************************************)
(* Likes and collections.                                                  *)
(***************************************************************************)
Numbers == [view : Int, like : Int, collect : Int]
LikersOf(i) == {u \in Likers : <<u, i>> \in likes}
CollectorsOf(i) == {u \in Likers : <<u, i>> \in DOMAIN collects}

MarkCall(p) ==
    /\ call[p].seen \subseteq Likers \X Things
    /\ call[p].op \in {"like", "collect"} => call[p].key \in Likers \X Things

MarksType ==
    /\ likes \subseteq Likers \X Things
    /\ DOMAIN collects \subseteq Likers \X Things
    /\ intr \in [Things -> Numbers]
    /\ newFolder \in Nat \ {0} /\ DOMAIN folders \subseteq 1 .. (newFolder - 1)
    /\ decrs \in [Things -> Nat]
    /\ exact \in BOOLEAN
    /\ DOMAIN call = Procs /\ \A p \in Procs : MarkCall(p)

LikesCounted == \A i \in Things : intr[i].like = Cardinality(LikersOf(i))

CollectsCounted ==
    exact => \A i \in Things : intr[i].collect = Cardinality(CollectorsOf(i)) + decrs[i]

\* A record that its owner has not moved elsewhere lies in a collection there
\* has been, and in no one else's.
Filed ==
    \A k \in DOMAIN collects : k \notin strays /\ collects[k] # 0 =>
        /\ collects[k] \in 1 .. (newFolder - 1)
        /\ collects[k] \in DOMAIN folders => folders[collects[k]] = k[1]

\* What a page does not show yet, it still asks for, or it is not there.
PageHolds ==
    /\ page.todo \subseteq Marks!Bizs
    /\ page.records \subseteq Likers \X Things
    /\ page.pc = "shown" => page.todo = {}
    /\ page.pc \in {"items", "shown"} =>
           \A k \in page.records : k[2] \in live => k[2][1] \in page.todo \/ k[2] \in page.found

MarksInv == MarksType /\ LikesCounted /\ CollectsCounted /\ Filed /\ PageHolds

LEMMA MarksCardinality ==
    ASSUME NEW S PROVE Marks!Cardinality(S) = Cardinality(S)
BY DEF Marks!Cardinality, Cardinality

LEMMA MarkersFinite ==
    ASSUME NEW i
    PROVE  /\ IsFiniteSet(LikersOf(i)) /\ Cardinality(LikersOf(i)) \in Nat
           /\ IsFiniteSet(CollectorsOf(i)) /\ Cardinality(CollectorsOf(i)) \in Nat
<1>1. LikersOf(i) \subseteq Likers /\ CollectorsOf(i) \subseteq Likers
  BY DEF LikersOf, CollectorsOf
<1>2. IsFiniteSet(LikersOf(i)) /\ IsFiniteSet(CollectorsOf(i))
  BY <1>1, FS_Subset, CommunityAssumption
<1> QED
  BY <1>2, FS_CardinalityType

LEMMA MarksFinite == IsFiniteSet(Likers \X Things)
<1>1. IsFiniteSet(Things)
  <2>1. IsFiniteSet({<<"case", 1>>})
    BY FS_Singleton
  <2>2. IsFiniteSet({<<"case", 1>>} \cup {<<"question", 1>>})
    BY <2>1, FS_Singleton, FS_Union
  <2>3. Things = {<<"case", 1>>} \cup {<<"question", 1>>}
    BY DEF Things
  <2> QED
    BY <2>2, <2>3
<1> QED
  BY <1>1, FS_Product, CommunityAssumption

LEMMA UpsertedIs ==
    ASSUME intr \in [Things -> Numbers], NEW i \in Things, NEW col \in {"view", "like", "collect"}
    PROVE  /\ Marks!Upserted(i, col) \in [Things -> Numbers]
           /\ \A j \in Things : j # i => Marks!Upserted(i, col)[j] = intr[j]
           /\ Marks!Upserted(i, col)[i].like = intr[i].like + (IF col = "like" THEN 1 ELSE 0)
           /\ Marks!Upserted(i, col)[i].collect = intr[i].collect + (IF col = "collect" THEN 1 ELSE 0)
<1> DEFINE row == IF intr[i] = Marks!NoRow THEN Marks!ZeroRow ELSE intr[i]
           new == [row EXCEPT ![col] = row[col] + 1]
<1>1. row \in Numbers /\ row.like = intr[i].like /\ row.collect = intr[i].collect /\ intr[i] \in Numbers
  BY DEF Numbers, Marks!NoRow, Marks!ZeroRow
<1> HIDE DEF row
<1>2. /\ new \in Numbers /\ new.like = row.like + (IF col = "like" THEN 1 ELSE 0)
      /\ new.collect = row.collect + (IF col = "collect" THEN 1 ELSE 0)
  <2>1. CASE col = "view"
    BY <1>1, <2>1 DEF Numbers
  <2>2. CASE col = "like"
    BY <1>1, <2>2 DEF Numbers
  <2>3. CASE col = "collect"
    BY <1>1, <2>3 DEF Numbers
  <2> QED
    BY <2>1, <2>2, <2>3
<1>3. Marks!Upserted(i, col) = [intr EXCEPT ![i] = new]
  BY DEF Marks!Upserted, row
<1> HIDE DEF new
<1> QED
  BY <1>1, <1>2, <1>3

LEMMA LoweredIs ==
    ASSUME intr \in [Things -> Numbers], NEW i \in Things, NEW col \in {"like", "collect"}
    PROVE  /\ Marks!Lowered(i, col) \in [Things -> Numbers]
           /\ \A j \in Things : j # i => Marks!Lowered(i, col)[j] = intr[j]
           /\ col = "like" =>
                  /\ Marks!Lowered(i, col)[i].collect = intr[i].collect
                  /\ intr[i].like > 0 => Marks!Lowered(i, col)[i].like = intr[i].like - 1
           /\ col = "collect" =>
                  /\ Marks!Lowered(i, col)[i].like = intr[i].like
                  /\ intr[i].collect > 0 => Marks!Lowered(i, col)[i].collect = intr[i].collect - 1
<1> DEFINE new == IF intr[i] = Marks!NoRow THEN intr[i] ELSE [intr[i] EXCEPT ![col] = @ - 1]
<1>1. intr[i] \in Numbers
  OBVIOUS
<1>2. /\ new \in Numbers
      /\ col = "like" => /\ new.collect = intr[i].collect
                         /\ intr[i].like > 0 => new.like = intr[i].like - 1
      /\ col = "collect" => /\ new.like = intr[i].like
                            /\ intr[i].collect > 0 => new.collect = intr[i].collect - 1
  <2>1. CASE col = "like"
    BY <1>1, <2>1 DEF Numbers, Marks!NoRow
  <2>2. CASE col = "collect"
    BY <1>1, <2>2 DEF Numbers, Marks!NoRow
  <2> QED
    BY <2>1, <2>2
<1>3. Marks!Lowered(i, col) = [intr EXCEPT ![i] = new]
  BY DEF Marks!Lowered
<1> HIDE DEF new
<1> QED
  BY <1>2, <1>3

\* A like is a row and one more, or one less.
LEMMA LikeTx ==
    ASSUME MarksType, LikesCounted, NEW u \in Likers, NEW i \in Things,
           Marks!deleteLikeInfo(<<u, i>>) \/ Marks!insertLikeInfo(<<u, i>>)
    PROVE  /\ likes' \subseteq Likers \X Things
           /\ intr' \in [Things -> Numbers]
           /\ LikesCounted'
           /\ \A j \in Things : intr'[j].collect = intr[j].collect
<1>1. likes \subseteq Likers \X Things /\ intr \in [Things -> Numbers] /\ \A j \in Things : intr[j] \in Numbers
  BY DEF MarksType
<1>2. intr[i].like = Cardinality(LikersOf(i)) /\ \A j \in Things : intr[j].like = Cardinality(LikersOf(j))
  BY DEF LikesCounted
<1>3. CASE likes' = likes /\ intr' = intr
  BY <1>1, <1>3 DEF LikesCounted, LikersOf
<1>4. CASE <<u, i>> \in likes /\ likes' = likes \ {<<u, i>>} /\ intr' = Marks!Lowered(i, "like")
  <2>1. LikersOf(i)' = LikersOf(i) \ {u} /\ u \in LikersOf(i)
    BY <1>4 DEF LikersOf
  <2>2. \A j \in Things : j # i => LikersOf(j)' = LikersOf(j)
    BY <1>4 DEF LikersOf
  <2>3. /\ Cardinality(LikersOf(i)') = Cardinality(LikersOf(i)) - 1
        /\ Cardinality(LikersOf(i)) \in Nat /\ Cardinality(LikersOf(i)') \in Nat
    BY <2>1, OneLess, MarkersFinite, FS_CardinalityType
  <2>4. intr[i].like > 0
    BY <1>2, <2>3
  <2>5. /\ intr' \in [Things -> Numbers] /\ \A j \in Things : j # i => intr'[j] = intr[j]
        /\ intr'[i].like = intr[i].like - 1 /\ intr'[i].collect = intr[i].collect
    BY <1>1, <1>4, <2>4, LoweredIs
  <2>6. LikesCounted'
    BY <1>2, <2>2, <2>3, <2>5 DEF LikesCounted
  <2> QED
    BY <1>1, <1>4, <2>5, <2>6
<1>5. CASE <<u, i>> \notin likes /\ likes' = likes \cup {<<u, i>>} /\ intr' = Marks!Upserted(i, "like")
  <2>1. LikersOf(i)' = LikersOf(i) \cup {u} /\ u \notin LikersOf(i)
    BY <1>5 DEF LikersOf
  <2>2. \A j \in Things : j # i => LikersOf(j)' = LikersOf(j)
    BY <1>5 DEF LikersOf
  <2>3. Cardinality(LikersOf(i)') = Cardinality(LikersOf(i)) + 1 /\ Cardinality(LikersOf(i)) \in Nat
    BY <2>1, OneMore, MarkersFinite
  <2>4. /\ intr' \in [Things -> Numbers] /\ \A j \in Things : j # i => intr'[j] = intr[j]
        /\ intr'[i].like = intr[i].like + 1 /\ intr'[i].collect = intr[i].collect + 0
    BY <1>1, <1>5, UpsertedIs
  <2>5. intr[i].collect \in Int
    BY <1>1 DEF Numbers
  <2>6. LikesCounted'
    BY <1>2, <2>2, <2>3, <2>4 DEF LikesCounted
  <2> QED
    BY <1>1, <1>5, <2>4, <2>5, <2>6
<1> QED
  BY <1>3, <1>4, <1>5 DEF Marks!deleteLikeInfo, Marks!insertLikeInfo

\* A collected item is a record and one more, or one less.
LEMMA CollectTx ==
    ASSUME MarksType, CollectsCounted, exact' = exact, decrs' = decrs, NEW u \in Likers, NEW i \in Things,
           Marks!deleteCollectionInfo(<<u, i>>) \/ Marks!insertCollectionBiz(<<u, i>>)
    PROVE  /\ DOMAIN collects' \subseteq Likers \X Things
           /\ intr' \in [Things -> Numbers]
           /\ CollectsCounted'
           /\ \A j \in Things : intr'[j].like = intr[j].like
           /\ \A k \in DOMAIN collects' : (k \in DOMAIN collects /\ collects'[k] = collects[k]) \/ collects'[k] = 0
<1>1. /\ DOMAIN collects \subseteq Likers \X Things /\ intr \in [Things -> Numbers] /\ decrs \in [Things -> Nat]
      /\ \A j \in Things : intr[j] \in Numbers
  BY DEF MarksType
<1>2. exact => \A j \in Things : intr[j].collect = Cardinality(CollectorsOf(j)) + decrs[j]
  BY DEF CollectsCounted
<1>3. CASE collects' = collects /\ intr' = intr
  BY <1>1, <1>3 DEF CollectsCounted, CollectorsOf
<1>4. CASE /\ <<u, i>> \in DOMAIN collects /\ collects' = Marks!Without(collects, {<<u, i>>})
           /\ intr' = Marks!Lowered(i, "collect")
  <2>0. /\ DOMAIN collects' = DOMAIN collects \ {<<u, i>>}
        /\ \A k \in DOMAIN collects' : collects'[k] = collects[k]
    BY <1>4 DEF Marks!Without
  <2>1. CollectorsOf(i)' = CollectorsOf(i) \ {u} /\ u \in CollectorsOf(i)
    BY <1>4, <2>0 DEF CollectorsOf
  <2>2. \A j \in Things : j # i => CollectorsOf(j)' = CollectorsOf(j)
    BY <1>4, <2>0 DEF CollectorsOf
  <2>3. /\ Cardinality(CollectorsOf(i)') = Cardinality(CollectorsOf(i)) - 1
        /\ Cardinality(CollectorsOf(i)) \in Nat /\ Cardinality(CollectorsOf(i)') \in Nat
    BY <2>1, OneLess, MarkersFinite, FS_CardinalityType
  <2>4. decrs[i] \in Nat /\ (exact => intr[i].collect > 0)
    BY <1>1, <1>2, <2>3
  <2>5. /\ intr' \in [Things -> Numbers] /\ \A j \in Things : j # i => intr'[j] = intr[j]
        /\ exact => intr'[i].collect = intr[i].collect - 1
        /\ intr'[i].like = intr[i].like
    BY <1>1, <1>4, <2>4, LoweredIs
  <2>6. CollectsCounted'
    BY <1>2, <2>2, <2>3, <2>4, <2>5 DEF CollectsCounted
  <2> QED
    BY <1>1, <2>0, <2>5, <2>6
<1>5. CASE /\ <<u, i>> \notin DOMAIN collects
           /\ collects' = [j \in DOMAIN collects \cup {<<u, i>>} |-> IF j = <<u, i>> THEN 0 ELSE collects[j]]
           /\ intr' = Marks!Upserted(i, "collect")
  <2>0. /\ DOMAIN collects' = DOMAIN collects \cup {<<u, i>>}
        /\ \A k \in DOMAIN collects' : (k \in DOMAIN collects /\ collects'[k] = collects[k]) \/ collects'[k] = 0
    BY <1>5
  <2>1. CollectorsOf(i)' = CollectorsOf(i) \cup {u} /\ u \notin CollectorsOf(i)
    BY <1>5, <2>0 DEF CollectorsOf
  <2>2. \A j \in Things : j # i => CollectorsOf(j)' = CollectorsOf(j)
    BY <1>5, <2>0 DEF CollectorsOf
  <2>3. Cardinality(CollectorsOf(i)') = Cardinality(CollectorsOf(i)) + 1 /\ Cardinality(CollectorsOf(i)) \in Nat
    BY <2>1, OneMore, MarkersFinite
  <2>4. /\ intr' \in [Things -> Numbers] /\ \A j \in Things : j # i => intr'[j] = intr[j]
        /\ intr'[i].collect = intr[i].collect + 1 /\ intr'[i].like = intr[i].like + 0
    BY <1>1, <1>5, UpsertedIs
  <2>5. intr[i].like \in Int /\ decrs[i] \in Nat
    BY <1>1 DEF Numbers
  <2>6. CollectsCounted'
    BY <1>2, <2>2, <2>3, <2>4, <2>5 DEF CollectsCounted
  <2> QED
    BY <1>1, <2>0, <2>4, <2>5, <2>6
<1> QED
  BY <1>3, <1>4, <1>5 DEF Marks!deleteCollectionInfo, Marks!insertCollectionBiz, Marks!Rows,
                          Marks!Unfiled

\* What a deletion takes off the records it adds to the decrements, when it
\* takes what was read.
LEMMA DeleteTx ==
    ASSUME MarksType, CollectsCounted, intr' = intr, NEW u, NEW c, NEW seen \in SUBSET (Likers \X Things),
           Marks!DeleteRows(u, c, seen)
    PROVE  /\ DOMAIN collects' \subseteq DOMAIN collects
           /\ \A k \in DOMAIN collects' : collects'[k] = collects[k]
           /\ DOMAIN folders' \subseteq DOMAIN folders
           /\ \A f \in DOMAIN folders' : folders'[f] = folders[f]
           /\ decrs' \in [Things -> Nat] /\ exact' \in BOOLEAN
           /\ CollectsCounted'
<1>1. decrs \in [Things -> Nat] /\ exact \in BOOLEAN /\ DOMAIN collects \subseteq Likers \X Things
  BY DEF MarksType
<1>2. CASE UNCHANGED <<folders, collects, decrs, exact>>
  BY <1>1, <1>2 DEF CollectsCounted, CollectorsOf
<1>3. CASE /\ folders' = Marks!Without(folders, {c})
           /\ collects' = Marks!Without(collects, Marks!deleted(u, c))
           /\ decrs' = [i \in Things |-> decrs[i] + Cardinality({k \in seen : k[2] = i})]
           /\ exact' = (exact /\ seen = Marks!deleted(u, c))
  <2> DEFINE gone == Marks!deleted(u, c)
             decrements(i) == {k \in seen : k[2] = i}
  <2>1. /\ DOMAIN collects' = DOMAIN collects \ gone /\ \A k \in DOMAIN collects' : collects'[k] = collects[k]
        /\ DOMAIN folders' \subseteq DOMAIN folders /\ \A f \in DOMAIN folders' : folders'[f] = folders[f]
        /\ gone \subseteq DOMAIN collects /\ \A k \in gone : k[1] = u
    BY <1>3 DEF Marks!Without, Marks!deleted, Marks!RowsOf, Marks!Rows
  <2>2. \A i \in Things : IsFiniteSet(decrements(i)) /\ Cardinality(decrements(i)) \in Nat
    <3>1. IsFiniteSet(seen)
      BY MarksFinite, FS_Subset
    <3>2. \A i : decrements(i) \subseteq seen
      OBVIOUS
    <3> HIDE DEF decrements
    <3> QED
      BY <3>1, <3>2, FS_Subset, FS_CardinalityType
  <2>3. decrs' \in [Things -> Nat] /\ \A i \in Things : decrs'[i] = decrs[i] + Cardinality(decrements(i))
    <3>1. decrs' = [i \in Things |-> decrs[i] + Cardinality(decrements(i))]
      BY <1>3
    <3> HIDE DEF decrements
    <3>2. \A i \in Things : decrs[i] + Cardinality(decrements(i)) \in Nat
      BY <1>1, <2>2
    <3> QED
      BY <3>1, <3>2
  <2>4. exact' \in BOOLEAN
    BY <1>1, <1>3
  <2>5. ASSUME exact', NEW i \in Things
        PROVE  intr'[i].collect = Cardinality(CollectorsOf(i)') + decrs'[i]
    <3>1. exact /\ seen = gone
      BY <1>3, <2>5
    <3>2. intr[i].collect = Cardinality(CollectorsOf(i)) + decrs[i] /\ decrs[i] \in Nat
      BY <1>1, <3>1 DEF CollectsCounted
    <3>3. CASE <<u, i>> \in gone
      <4>1. decrements(i) = {<<u, i>>}
        BY <1>1, <2>1, <3>1, <3>3
      <4>2. Cardinality(decrements(i)) = 1
        BY <4>1, FS_Singleton
      <4>3. CollectorsOf(i)' = CollectorsOf(i) \ {u} /\ u \in CollectorsOf(i)
        BY <1>1, <2>1, <3>3 DEF CollectorsOf
      <4>4. Cardinality(CollectorsOf(i)') = Cardinality(CollectorsOf(i)) - 1
        BY <4>3, OneLess, MarkersFinite
      <4>5. Cardinality(CollectorsOf(i)) \in Nat
        BY MarkersFinite
      <4> HIDE DEF gone, decrements
      <4> QED
        BY <2>3, <3>2, <4>2, <4>4, <4>5
    <3>4. CASE <<u, i>> \notin gone
      <4>1. decrements(i) = {}
        BY <1>1, <2>1, <3>1, <3>4
      <4>2. Cardinality(decrements(i)) = 0
        BY <4>1, FS_EmptySet
      <4>3. CollectorsOf(i)' = CollectorsOf(i)
        BY <1>1, <2>1, <3>4 DEF CollectorsOf
      <4> HIDE DEF gone, decrements
      <4> QED
        BY <2>3, <3>2, <4>2, <4>3
    <3> QED
      BY <3>3, <3>4
  <2>6. CollectsCounted'
    BY <2>5 DEF CollectsCounted
  <2> HIDE DEF gone
  <2> QED
    BY <2>1, <2>3, <2>4, <2>6
<1> QED
  BY <1>2, <1>3, MarksCardinality DEF Marks!DeleteRows

\* Pages do not change the tables, nor writes the pages.
LEMMA PagesNext ==
    ASSUME MarksInv, Marks!Pages,
           UNCHANGED <<likes, collects, intr, folders, newFolder, decrs, call, calls, strays, exact>>
    PROVE  MarksInv'
<1>1. DOMAIN collects \subseteq Likers \X Things
  BY DEF MarksInv, MarksType
<1>2. \A k \in Likers \X Things : k[2][1] \in Marks!Bizs
  BY DEF Things, Marks!Bizs
<1>3. PageHolds'
  <2>0. PageHolds
    BY DEF MarksInv
  <2>1. ASSUME NEW u \in Likers, NEW c \in Marks!Cids, Marks!CollectionRecords(u, c) PROVE PageHolds'
    <3>1. page' = [pc |-> "items", records |-> Marks!CollectionInfoWithPage(u, c), todo |-> Marks!Bizs, found |-> {}]
      BY <2>1 DEF Marks!CollectionRecords
    <3>2. Marks!CollectionInfoWithPage(u, c) \subseteq Likers \X Things
      BY <1>1 DEF Marks!CollectionInfoWithPage, Marks!RowsOf, Marks!Rows
    <3> QED
      BY <1>2, <3>1, <3>2 DEF PageHolds
  <2>2. ASSUME NEW biz \in Marks!Bizs, Marks!AskItems(biz) PROVE PageHolds'
    <3>1. /\ page.pc = "items" /\ page'.pc = "items" /\ live' = live /\ page'.records = page.records
          /\ page'.todo = page.todo \ {biz}
          /\ page'.found = page.found \cup {i \in live : i[1] = biz /\ \E k \in page.records : k[2] = i}
      BY <2>2, <2>0 DEF Marks!AskItems, PageHolds
    <3> QED
      BY <2>0, <3>1 DEF PageHolds
  <2>3. CASE Marks!GetResults
    <3>1. /\ page.pc = "items" /\ page.todo = {} /\ live' = live
          /\ page' = [page EXCEPT !.pc = "shown"]
      BY <2>3 DEF Marks!GetResults
    <3> QED
      BY <2>0, <3>1 DEF PageHolds
  <2>4. CASE Marks!QueryFails \/ Marks!ClosePage
    BY <2>4 DEF Marks!QueryFails, Marks!ClosePage, Marks!Blank, PageHolds
  <2>5. ASSUME NEW i \in Things, Marks!Withdraw(i) PROVE PageHolds'
    BY <2>0, <2>5 DEF Marks!Withdraw, PageHolds
  <2> QED
    BY <2>1, <2>2, <2>3, <2>4, <2>5 DEF Marks!Pages
<1>4. MarksType' /\ LikesCounted' /\ CollectsCounted' /\ Filed'
  BY DEF MarksInv, MarksType, MarkCall, LikesCounted, LikersOf, CollectsCounted, CollectorsOf,
         Filed
<1> QED
  BY <1>3, <1>4 DEF MarksInv

\* A call that begins has read records and keys there may be.
LEMMA BeginKeeps ==
    ASSUME MarksType, NEW p \in Procs, NEW op, NEW k, NEW c, NEW seen,
           seen \subseteq Likers \X Things,
           op \in {"like", "collect"} => k \in Likers \X Things,
           Marks!Begin(p, op, k, c, seen)
    PROVE  DOMAIN call' = Procs /\ \A q \in Procs : MarkCall(q)'
<1>1. /\ DOMAIN call = Procs /\ \A q \in Procs : MarkCall(q)
      /\ call' = [call EXCEPT ![p] = [op |-> op, key |-> k, cid |-> c, seen |-> seen]]
  BY DEF MarksType, Marks!Begin
<1>2. /\ DOMAIN call' = Procs /\ call'[p] = [op |-> op, key |-> k, cid |-> c, seen |-> seen]
      /\ \A q \in Procs : q # p => call'[q] = call[q]
  BY <1>1
<1> QED
  BY <1>1, <1>2 DEF MarkCall

LEMMA EndKeeps ==
    ASSUME MarksType, NEW p \in Procs, Marks!End(p)
    PROVE  DOMAIN call' = Procs /\ \A q \in Procs : MarkCall(q)'
<1>1. /\ DOMAIN call = Procs /\ \A q \in Procs : MarkCall(q)
      /\ call' = [call EXCEPT ![p] = Marks!Idle]
  BY DEF MarksType, Marks!End
<1>2. /\ DOMAIN call' = Procs /\ call'[p] = Marks!Idle
      /\ \A q \in Procs : q # p => call'[q] = call[q]
  BY <1>1
<1> QED
  BY <1>1, <1>2 DEF MarkCall, Marks!Idle

LEMMA MarkedNext ==
    ASSUME MarksInv, Marks!Marked, UNCHANGED strays, UNCHANGED Marks!ofPages
    PROVE  MarksInv'
<1>0. /\ MarksType /\ LikesCounted /\ CollectsCounted /\ Filed /\ strays' = strays
      /\ DOMAIN call = Procs /\ \A p \in Procs : MarkCall(p)
  BY DEF MarksInv, MarksType
<1>1. PageHolds'
  BY DEF MarksInv, PageHolds, Marks!ofPages
<1>2. ASSUME UNCHANGED <<likes, collects, intr, folders, newFolder, decrs, exact>>,
             DOMAIN call' = Procs /\ \A q \in Procs : MarkCall(q)'
      PROVE  MarksInv'
  BY <1>1, <1>2, <1>0 DEF MarksInv, MarksType, LikesCounted, LikersOf, CollectsCounted,
                          CollectorsOf, Filed
<1>3. ASSUME NEW p \in Procs, NEW k \in Likers \X Things, Marks!ToggleLike(p, k) PROVE MarksInv'
  <2>1. {k} \cap likes \subseteq Likers \X Things
    OBVIOUS
  <2> QED
    BY <1>0, <1>2, <1>3, <2>1, BeginKeeps DEF Marks!ToggleLike
<1>4. ASSUME NEW p \in Procs, NEW k \in Likers \X Things, Marks!ToggleCollect(p, k) PROVE MarksInv'
  <2>1. {k} \cap Marks!Rows \subseteq Likers \X Things
    OBVIOUS
  <2> QED
    BY <1>0, <1>2, <1>4, <2>1, BeginKeeps DEF Marks!ToggleCollect
<1>5. ASSUME NEW p \in Procs, NEW u \in Likers, NEW c \in Marks!Cids, Marks!DeleteCollection(p, u, c)
      PROVE  MarksInv'
  <2>1. Marks!RowsOf(c) \subseteq Likers \X Things
    BY <1>0 DEF MarksType, Marks!RowsOf, Marks!Rows
  <2> QED
    BY <1>0, <1>2, <1>5, <2>1, BeginKeeps DEF Marks!DeleteCollection
<1>6. ASSUME NEW p \in Procs, Marks!ToggleLikeTx(p) PROVE MarksInv'
  <2>1. PICK u \in Likers, i \in Things : call[p].key = <<u, i>>
    BY <1>0, <1>6 DEF MarkCall, Marks!ToggleLikeTx
  <2>2. Marks!deleteLikeInfo(<<u, i>>) \/ Marks!insertLikeInfo(<<u, i>>)
    BY <1>6, <2>1 DEF Marks!ToggleLikeTx, Marks!LikeToggle
  <2>3. UNCHANGED <<collects, folders, newFolder, decrs, exact>>
    BY <1>6 DEF Marks!ToggleLikeTx
  <2>4. /\ likes' \subseteq Likers \X Things /\ intr' \in [Things -> Numbers] /\ LikesCounted'
        /\ \A j \in Things : intr'[j].collect = intr[j].collect
    BY <1>0, <2>2, LikeTx
  <2>5. DOMAIN call' = Procs /\ \A q \in Procs : MarkCall(q)'
    BY <1>0, <1>6, EndKeeps DEF Marks!ToggleLikeTx
  <2>6. CollectsCounted' /\ Filed'
    BY <1>0, <2>3, <2>4 DEF CollectsCounted, CollectorsOf, Filed
  <2>7. MarksType'
    BY <1>0, <2>3, <2>4, <2>5 DEF MarksType
  <2> QED
    BY <1>1, <2>4, <2>6, <2>7 DEF MarksInv
<1>7. ASSUME NEW p \in Procs, Marks!ToggleCollectTx(p) PROVE MarksInv'
  <2>1. PICK u \in Likers, i \in Things : call[p].key = <<u, i>>
    BY <1>0, <1>7 DEF MarkCall, Marks!ToggleCollectTx
  <2>2. Marks!deleteCollectionInfo(<<u, i>>) \/ Marks!insertCollectionBiz(<<u, i>>)
    BY <1>7, <2>1 DEF Marks!ToggleCollectTx, Marks!CollectToggle
  <2>3. UNCHANGED <<likes, folders, newFolder, decrs, exact>>
    BY <1>7 DEF Marks!ToggleCollectTx
  <2>4. /\ DOMAIN collects' \subseteq Likers \X Things /\ intr' \in [Things -> Numbers] /\ CollectsCounted'
        /\ \A j \in Things : intr'[j].like = intr[j].like
        /\ \A k \in DOMAIN collects' : (k \in DOMAIN collects /\ collects'[k] = collects[k]) \/ collects'[k] = 0
    BY <1>0, <2>2, <2>3, CollectTx
  <2>5. DOMAIN call' = Procs /\ \A q \in Procs : MarkCall(q)'
    BY <1>0, <1>7, EndKeeps DEF Marks!ToggleCollectTx
  <2>6. LikesCounted'
    BY <1>0, <2>3, <2>4 DEF LikesCounted, LikersOf
  <2>7. Filed'
    BY <1>0, <2>3, <2>4 DEF Filed
  <2>8. MarksType'
    BY <1>0, <2>3, <2>4, <2>5 DEF MarksType
  <2> QED
    BY <1>1, <2>4, <2>6, <2>7, <2>8 DEF MarksInv
<1>8. ASSUME NEW p \in Procs, Marks!DeleteCollectionTx(p) PROVE MarksInv'
  <2>1. PICK u, c, seen : u = call[p].key[1] /\ c = call[p].cid /\ seen = call[p].seen
    OBVIOUS
  <2>2. seen \in SUBSET (Likers \X Things) /\ Marks!DeleteRows(u, c, seen)
    BY <1>0, <1>8, <2>1 DEF MarkCall, Marks!DeleteCollectionTx
  <2>3. UNCHANGED <<likes, intr, newFolder>>
    BY <1>8 DEF Marks!DeleteCollectionTx
  <2>4. /\ DOMAIN collects' \subseteq DOMAIN collects
        /\ \A k \in DOMAIN collects' : collects'[k] = collects[k]
        /\ DOMAIN folders' \subseteq DOMAIN folders
        /\ \A f \in DOMAIN folders' : folders'[f] = folders[f]
        /\ decrs' \in [Things -> Nat] /\ exact' \in BOOLEAN
        /\ CollectsCounted'
    BY <1>0, <2>2, <2>3, DeleteTx
  <2>5. DOMAIN call' = Procs /\ \A q \in Procs : MarkCall(q)'
    BY <1>0, <1>8, EndKeeps DEF Marks!DeleteCollectionTx
  <2>6. LikesCounted' /\ Filed'
    BY <1>0, <2>3, <2>4 DEF LikesCounted, LikersOf, Filed
  <2>7. MarksType'
    BY <1>0, <2>3, <2>4, <2>5 DEF MarksType
  <2> QED
    BY <1>1, <2>4, <2>6, <2>7 DEF MarksInv
<1>9. ASSUME NEW p \in Procs, NEW i \in Things, Marks!View(p, i) PROVE MarksInv'
  <2>1. intr' = Marks!Upserted(i, "view") /\ UNCHANGED <<likes, collects, folders, newFolder, decrs, exact, call>>
    BY <1>9 DEF Marks!View, Marks!Once, Marks!IncrViewCnt
  <2>2. intr \in [Things -> Numbers] /\ intr[i].like \in Int /\ intr[i].collect \in Int
    <3>1. intr \in [Things -> Numbers]
      BY <1>0 DEF MarksType
    <3> QED
      BY <3>1 DEF Numbers
  <2>3. /\ intr' \in [Things -> Numbers]
        /\ \A j \in Things : j # i => intr'[j] = intr[j]
        /\ intr'[i].like = intr[i].like + 0 /\ intr'[i].collect = intr[i].collect + 0
    BY <2>1, <2>2, UpsertedIs
  <2>4. \A j \in Things : intr'[j].like = intr[j].like /\ intr'[j].collect = intr[j].collect
    BY <2>2, <2>3
  <2>5. LikesCounted' /\ CollectsCounted' /\ Filed'
    BY <1>0, <2>1, <2>4 DEF LikesCounted, LikersOf, CollectsCounted, CollectorsOf, Filed
  <2>6. MarksType'
    BY <1>0, <2>1, <2>3 DEF MarksType, MarkCall
  <2> QED
    BY <1>1, <2>5, <2>6 DEF MarksInv
<1>10. ASSUME NEW p \in Procs, NEW u \in Likers, Marks!NewCollection(p, u) PROVE MarksInv'
  <2>1. /\ folders' = [c \in DOMAIN folders \cup {newFolder} |-> IF c = newFolder THEN u ELSE folders[c]]
        /\ newFolder' = newFolder + 1
        /\ UNCHANGED <<likes, collects, intr, decrs, exact, call>>
    BY <1>10 DEF Marks!NewCollection, Marks!Once, Marks!SaveCollection
  <2>2. newFolder \in Nat \ {0} /\ DOMAIN folders \subseteq 1 .. (newFolder - 1)
    BY <1>0 DEF MarksType
  <2>3. newFolder' \in Nat \ {0} /\ DOMAIN folders' \subseteq 1 .. (newFolder' - 1)
    BY <2>1, <2>2
  <2>4. Filed'
    <3>1. \A k \in DOMAIN collects : k \notin strays /\ collects[k] # 0 =>
              collects[k] # newFolder /\ collects[k] \in 1 .. (newFolder' - 1)
      BY <1>0, <2>1, <2>2 DEF Filed
    <3> QED
      BY <1>0, <2>1, <3>1 DEF Filed
  <2>5. LikesCounted' /\ CollectsCounted'
    BY <1>0, <2>1 DEF LikesCounted, LikersOf, CollectsCounted, CollectorsOf
  <2>6. MarksType'
    BY <1>0, <2>1, <2>3 DEF MarksType, MarkCall
  <2> QED
    BY <1>1, <2>4, <2>5, <2>6 DEF MarksInv
<1>11. ASSUME NEW i \in Things, Marks!decrCollectionCount(i) PROVE MarksInv'
  <2>1. /\ decrs[i] > 0 /\ decrs' = [decrs EXCEPT ![i] = @ - 1]
        /\ intr' = IF intr[i].collect > 0 THEN Marks!Lowered(i, "collect") ELSE intr
        /\ UNCHANGED <<likes, collects, folders, newFolder, exact, call>>
    BY <1>11 DEF Marks!decrCollectionCount, Marks!DecrCollectCount
  <2>2. decrs \in [Things -> Nat] /\ intr \in [Things -> Numbers] /\ decrs[i] \in Nat
    BY <1>0 DEF MarksType
  <2>3. /\ decrs' \in [Things -> Nat] /\ decrs'[i] = decrs[i] - 1
        /\ \A j \in Things : j # i => decrs'[j] = decrs[j]
    BY <2>1, <2>2
  <2>4. /\ intr' \in [Things -> Numbers] /\ intr'[i].like = intr[i].like
        /\ \A j \in Things : j # i => intr'[j] = intr[j]
        /\ intr[i].collect > 0 => intr'[i].collect = intr[i].collect - 1
    BY <2>1, <2>2, LoweredIs
  <2>5. LikesCounted' /\ Filed'
    BY <1>0, <2>1, <2>4 DEF LikesCounted, LikersOf, Filed
  <2>6. CollectsCounted'
    <3>1. ASSUME exact PROVE intr'[i].collect = Cardinality(CollectorsOf(i)) + decrs'[i]
      <4>1. intr[i].collect = Cardinality(CollectorsOf(i)) + decrs[i] /\ Cardinality(CollectorsOf(i)) \in Nat
        BY <1>0, <3>1, MarkersFinite DEF CollectsCounted
      <4> QED
        BY <2>1, <2>2, <2>3, <2>4, <4>1
    <3>2. \A j : CollectorsOf(j)' = CollectorsOf(j)
      BY <2>1 DEF CollectorsOf
    <3> QED
      BY <1>0, <2>1, <2>3, <2>4, <3>1, <3>2 DEF CollectsCounted
  <2>7. MarksType'
    BY <1>0, <2>1, <2>3, <2>4 DEF MarksType, MarkCall
  <2> QED
    BY <1>1, <2>5, <2>6, <2>7 DEF MarksInv
<1>12. ASSUME NEW i \in Things, Marks!DecrFails(i) PROVE MarksInv'
  <2>1. /\ decrs[i] > 0 /\ decrs' = [decrs EXCEPT ![i] = @ - 1] /\ exact' = FALSE
        /\ UNCHANGED <<likes, collects, intr, folders, newFolder, call>>
    BY <1>12 DEF Marks!DecrFails
  <2>2. decrs' \in [Things -> Nat]
    BY <1>0, <2>1 DEF MarksType
  <2>3. LikesCounted' /\ CollectsCounted' /\ Filed'
    BY <1>0, <2>1 DEF LikesCounted, LikersOf, CollectsCounted, Filed
  <2>4. MarksType'
    BY <1>0, <2>1, <2>2 DEF MarksType, MarkCall
  <2> QED
    BY <1>1, <2>3, <2>4 DEF MarksInv
<1> QED
  BY <1>3, <1>4, <1>5, <1>6, <1>7, <1>8, <1>9, <1>10, <1>11, <1>12 DEF Marks!Marked

LEMMA MoveNext ==
    ASSUME MarksInv, NEW p \in Procs, NEW k \in Likers \X Things, NEW c, Marks!Move(p, k, c),
           UNCHANGED Marks!ofPages
    PROVE  MarksInv'
<1>0. MarksType /\ LikesCounted /\ CollectsCounted /\ Filed
  BY DEF MarksInv
<1>1. PageHolds'
  BY DEF MarksInv, PageHolds, Marks!ofPages
<1>2. /\ strays' = IF k \in DOMAIN collects /\ ~ Marks!Owns(k[1], c) THEN strays \cup {k} ELSE strays \ {k}
      /\ collects' = [j \in DOMAIN collects |-> IF j = k THEN c ELSE collects[j]]
      /\ UNCHANGED <<likes, intr, folders, newFolder, decrs, exact, call>>
  BY DEF Marks!Move, Marks!Once, Marks!MoveCollection, Marks!Rows
<1>3. DOMAIN collects' = DOMAIN collects
  BY <1>2
<1>4. ASSUME NEW j \in DOMAIN collects, j \notin strays', collects'[j] # 0
      PROVE  /\ collects'[j] \in 1 .. (newFolder - 1)
             /\ collects'[j] \in DOMAIN folders => folders[collects'[j]] = j[1]
  <2>1. CASE j = k
    <3>1. collects'[j] = c /\ c \in DOMAIN folders /\ folders[c] = k[1]
      BY <1>2, <1>4, <2>1 DEF Marks!Owns
    <3> QED
      BY <1>0, <2>1, <3>1 DEF MarksType
  <2>2. CASE j # k
    <3>1. collects'[j] = collects[j] /\ j \notin strays
      BY <1>2, <1>4, <2>2
    <3> QED
      BY <1>0, <1>4, <3>1 DEF Filed
  <2> QED
    BY <2>1, <2>2
<1>5. Filed'
  BY <1>2, <1>3, <1>4 DEF Filed
<1>6. LikesCounted' /\ CollectsCounted'
  BY <1>0, <1>2, <1>3 DEF LikesCounted, LikersOf, CollectsCounted, CollectorsOf
<1>7. MarksType'
  BY <1>0, <1>2, <1>3 DEF MarksType, MarkCall
<1> QED
  BY <1>1, <1>5, <1>6, <1>7 DEF MarksInv

LEMMA WritesNext ==
    ASSUME MarksInv, Marks!Writes, UNCHANGED Marks!ofPages
    PROVE  MarksInv'
BY MarkedNext, MoveNext DEF Marks!Writes

LEMMA MarksNext == MarksInv /\ [Marks!Next]_Marks!ivars => MarksInv'
<1> SUFFICES ASSUME MarksInv, [Marks!Next]_Marks!ivars PROVE MarksInv'
  OBVIOUS
<1>1. CASE Marks!Next
  BY <1>1, PagesNext, WritesNext DEF Marks!Next
<1>2. CASE UNCHANGED Marks!ivars
  BY <1>2 DEF Marks!ivars, Marks!ofPages, MarksInv, MarksType, MarkCall, LikesCounted, LikersOf,
              CollectsCounted, CollectorsOf, Filed, PageHolds
<1> QED
  BY <1>1, <1>2

LEMMA MarksInit == Marks!Init => MarksInv
<1> SUFFICES ASSUME Marks!Init PROVE MarksInv
  OBVIOUS
<1>1. /\ likes = {} /\ DOMAIN collects = {} /\ intr = [i \in Things |-> Marks!NoRow]
      /\ DOMAIN folders = {} /\ newFolder = 1 /\ decrs = [i \in Things |-> 0]
      /\ call = [p \in Procs |-> Marks!Idle] /\ page = Marks!Blank /\ exact = TRUE
  BY DEF Marks!Init
<1>2. Marks!NoRow \in Numbers /\ Marks!NoRow.like = 0 /\ Marks!NoRow.collect = 0
  BY DEF Marks!NoRow, Numbers
<1>3. \A i : LikersOf(i) = {} /\ CollectorsOf(i) = {}
  BY <1>1 DEF LikersOf, CollectorsOf
<1>4. Cardinality({}) = 0
  BY FS_EmptySet
<1>5. MarksType
  BY <1>1, <1>2 DEF MarksType, MarkCall, Marks!Idle
<1>6. LikesCounted /\ CollectsCounted
  <2>1. ASSUME NEW i \in Things
        PROVE  /\ intr[i].like = 0 /\ intr[i].collect = 0 /\ decrs[i] = 0
               /\ Cardinality(LikersOf(i)) = 0 /\ Cardinality(CollectorsOf(i)) = 0
    BY <1>1, <1>2, <1>3, <1>4
  <2> QED
    BY <2>1 DEF LikesCounted, CollectsCounted
<1>7. Filed /\ PageHolds
  BY <1>1 DEF Filed, PageHolds, Marks!Blank
<1> QED
  BY <1>5, <1>6, <1>7 DEF MarksInv

LEMMA MarksAreRight ==
    MarksInv => /\ Marks!LikesAreCounted /\ Marks!CollectsAreCounted
                /\ Marks!TotalIsListed /\ Marks!PagesAreWhole
<1> SUFFICES ASSUME MarksInv
             PROVE  /\ Marks!LikesAreCounted /\ Marks!CollectsAreCounted
                    /\ Marks!TotalIsListed /\ Marks!PagesAreWhole
  OBVIOUS
<1>1. Marks!LikesAreCounted
  <2> SUFFICES ASSUME NEW i \in Things
               PROVE  /\ intr[i].like = Cardinality({u \in Likers : Marks!Liked(u, i)})
                      /\ \A u \in Likers : Marks!Liked(u, i) =>
                            /\ Marks!Get(u, i).liked
                            /\ i \in DOMAIN Marks!GetByIds(u, Things)
                            /\ Marks!GetByIds(u, Things)[i].liked
    BY MarksCardinality DEF Marks!LikesAreCounted
  <2>1. LikersOf(i) = {u \in Likers : Marks!Liked(u, i)} /\ intr[i].like = Cardinality(LikersOf(i))
    BY DEF MarksInv, LikesCounted, LikersOf, Marks!Liked
  <2>2. ASSUME NEW u \in Likers, Marks!Liked(u, i)
        PROVE  /\ Marks!Get(u, i).liked
               /\ i \in DOMAIN Marks!GetByIds(u, Things)
               /\ Marks!GetByIds(u, Things)[i].liked
    <3>1. u \in LikersOf(i)
      BY <2>1, <2>2
    <3>2. Cardinality(LikersOf(i)) # 0
      BY <3>1, MarkersFinite, FS_EmptySet
    <3>3. intr[i] # Marks!NoRow
      BY <2>1, <3>2 DEF Marks!NoRow
    <3> QED
      BY <2>2, <3>3 DEF Marks!Get, Marks!GetByIds, Marks!GetUserLikes, Marks!Liked
  <2> QED
    BY <2>1, <2>2
<1>2. Marks!CollectsAreCounted
  <2>1. \A i : CollectorsOf(i) = {u \in Likers : Marks!Collected(u, i)}
    BY DEF CollectorsOf, Marks!Collected, Marks!Rows
  <2> QED
    BY <2>1, MarksCardinality DEF MarksInv, CollectsCounted, Marks!CollectsAreCounted
<1>3. Marks!TotalIsListed
  <2>1. 0 \notin DOMAIN folders
    BY DEF MarksInv, MarksType
  <2>2. ASSUME NEW c \in DOMAIN folders, NEW k \in Marks!RowsOf(c), k \notin strays
        PROVE  k \in Marks!CollectionInfoWithPage(folders[c], c)
    BY <2>1, <2>2 DEF MarksInv, Filed, Marks!RowsOf, Marks!Rows, Marks!CollectionInfoWithPage
  <2>3. \A c : Marks!CollectionInfoWithPage(folders[c], c) \subseteq Marks!RowsOf(c)
    BY DEF Marks!CollectionInfoWithPage
  <2>4. ASSUME strays = {}, NEW c \in DOMAIN folders
        PROVE  Marks!RowsOf(c) = Marks!CollectionInfoWithPage(folders[c], c)
    BY <2>2, <2>3, <2>4
  <2> QED
    BY <2>2, <2>4 DEF Marks!TotalIsListed, Marks!CntRecords
<1>4. Marks!PagesAreWhole
  BY DEF MarksInv, PageHolds, Marks!PagesAreWhole, Marks!shownItem
<1> QED
  BY <1>1, <1>2, <1>3, <1>4

-----------------------------------------------------------------------------
(***************************************************************************)
(* Analyses of a resume.                                                   *)
(***************************************************************************)
\* What a goroutine has left: its calls, or those after the first, or nothing.
Left == [skills : {<<"skillKeypoint", "rewriteSkills">>, <<"rewriteSkills">>, <<>>, <<"failed">>},
         project : {<<"rewriteProject", "evaluatePrj">>, <<"evaluatePrj">>, <<>>, <<"failed">>},
         jobs : {<<"rewriteJobs">>, <<>>, <<"failed">>}]

CallsLeft(t) == Len(t.skills) + Len(t.project) + Len(t.jobs)

AnalysisType ==
    /\ s1 \in Nat
    /\ s2 \in [Procs -> Left]
    /\ s3 \in [Procs -> {"none", "ok", "noCredit", "error"}]
    /\ s4 \in [Procs -> Nat]
    /\ s5 \in [Procs -> {"none", "noCredit", "error"}]
    /\ s6 \in [Procs -> Nat]

\* While nothing failed, a request was charged for all but the calls it has left.
AnalysisCall(r) ==
    /\ s5[r] = "none" =>
           /\ s4[r] = s6[r] /\ s4[r] + CallsLeft(s2[r]) = 5
           /\ \A g \in {"skills", "project", "jobs"} : s2[r][g] # <<"failed">>
    /\ s3[r] = "ok" => s5[r] = "none"
    /\ s3[r] # "none" => \A g \in {"skills", "project", "jobs"} : s2[r][g] \in {<<>>, <<"failed">>}

AnalysisInv ==
    /\ AnalysisType
    /\ s1 + Analyses!SumOver(s6, Procs) = Funds
    /\ \A r \in Procs : AnalysisCall(r)

\* What a call that is answered leaves.
LEMMA TailLeft ==
    ASSUME NEW t \in Left, NEW g \in {"skills", "project", "jobs"}, t[g] \notin {<<>>, <<"failed">>}
    PROVE  /\ [t EXCEPT ![g] = Tail(@)] \in Left
           /\ CallsLeft([t EXCEPT ![g] = Tail(@)]) = CallsLeft(t) - 1
           /\ CallsLeft(t) \in Nat
           /\ \A h \in {"skills", "project", "jobs"} :
                  [t EXCEPT ![g] = Tail(@)][h] = <<"failed">> => t[h] = <<"failed">>
<1>1. /\ Tail(<<"skillKeypoint", "rewriteSkills">>) = <<"rewriteSkills">>
      /\ Tail(<<"rewriteProject", "evaluatePrj">>) = <<"evaluatePrj">>
      /\ Tail(<<"rewriteSkills">>) = <<>> /\ Tail(<<"evaluatePrj">>) = <<>> /\ Tail(<<"rewriteJobs">>) = <<>>
  OBVIOUS
<1>2. /\ Len(<<"skillKeypoint", "rewriteSkills">>) = 2 /\ Len(<<"rewriteProject", "evaluatePrj">>) = 2
      /\ Len(<<"rewriteSkills">>) = 1 /\ Len(<<"evaluatePrj">>) = 1 /\ Len(<<"rewriteJobs">>) = 1
      /\ Len(<<"failed">>) = 1 /\ Len(<<>>) = 0
  OBVIOUS
<1>3. /\ <<"rewriteSkills">> # <<"failed">> /\ <<"evaluatePrj">> # <<"failed">> /\ <<>> # <<"failed">>
  BY <1>2
<1>4. /\ \A l \in {<<"skillKeypoint", "rewriteSkills">>, <<"rewriteSkills">>, <<>>, <<"failed">>} :
            l \notin {<<>>, <<"failed">>} =>
                /\ Tail(l) \in {<<"rewriteSkills">>, <<>>}
                /\ Len(Tail(l)) = Len(l) - 1 /\ Len(l) \in Nat
      /\ \A l \in {<<"rewriteProject", "evaluatePrj">>, <<"evaluatePrj">>, <<>>, <<"failed">>} :
            l \notin {<<>>, <<"failed">>} =>
                /\ Tail(l) \in {<<"evaluatePrj">>, <<>>}
                /\ Len(Tail(l)) = Len(l) - 1 /\ Len(l) \in Nat
      /\ \A l \in {<<"rewriteJobs">>, <<>>, <<"failed">>} :
            l \notin {<<>>, <<"failed">>} =>
                /\ Tail(l) = <<>>
                /\ Len(Tail(l)) = Len(l) - 1 /\ Len(l) \in Nat
  BY <1>1, <1>2
<1>5. Len(t.skills) \in Nat /\ Len(t.project) \in Nat /\ Len(t.jobs) \in Nat
  BY <1>2 DEF Left
<1>6. CallsLeft(t) \in Nat
  <2>1. \A a, b, c \in Nat : a + b + c \in Nat
    OBVIOUS
  <2> QED
    BY <1>5, <2>1 DEF CallsLeft
<1>7. CASE g = "skills"
  <2> DEFINE u == [t EXCEPT !["skills"] = Tail(@)]
  <2>1. u.skills = Tail(t.skills) /\ u.project = t.project /\ u.jobs = t.jobs
    BY DEF Left
  <2>2. t.skills \in {<<"skillKeypoint", "rewriteSkills">>, <<"rewriteSkills">>, <<>>, <<"failed">>}
    BY DEF Left
  <2>3. Tail(t.skills) \in {<<"rewriteSkills">>, <<>>} /\ Len(Tail(t.skills)) = Len(t.skills) - 1
    BY <1>4, <1>7, <2>2
  <2>4. u \in Left
    BY <2>3 DEF Left
  <2>5. CallsLeft(u) = CallsLeft(t) - 1 /\ CallsLeft(t) \in Nat
    <3>1. Len(u.skills) = Len(t.skills) - 1 /\ Len(u.project) = Len(t.project) /\ Len(u.jobs) = Len(t.jobs)
      BY <2>1, <2>3
    <3>2. CallsLeft(u) = CallsLeft(t) - 1
      <4> HIDE DEF u
      <4> QED BY <1>5, <3>1 DEF CallsLeft
    <3> QED BY <1>6, <3>2
  <2> QED
    BY <1>3, <1>7, <2>1, <2>3, <2>4, <2>5
<1>8. CASE g = "project"
  <2> DEFINE u == [t EXCEPT !["project"] = Tail(@)]
  <2>1. u.skills = t.skills /\ u.project = Tail(t.project) /\ u.jobs = t.jobs
    BY DEF Left
  <2>2. t.project \in {<<"rewriteProject", "evaluatePrj">>, <<"evaluatePrj">>, <<>>, <<"failed">>}
    BY DEF Left
  <2>3. Tail(t.project) \in {<<"evaluatePrj">>, <<>>} /\ Len(Tail(t.project)) = Len(t.project) - 1
    BY <1>4, <1>8, <2>2
  <2>4. u \in Left
    BY <2>3 DEF Left
  <2>5. CallsLeft(u) = CallsLeft(t) - 1 /\ CallsLeft(t) \in Nat
    <3>1. Len(u.project) = Len(t.project) - 1 /\ Len(u.skills) = Len(t.skills) /\ Len(u.jobs) = Len(t.jobs)
      BY <2>1, <2>3
    <3>2. CallsLeft(u) = CallsLeft(t) - 1
      <4> HIDE DEF u
      <4> QED BY <1>5, <3>1 DEF CallsLeft
    <3> QED BY <1>6, <3>2
  <2> QED
    BY <1>3, <1>8, <2>1, <2>3, <2>4, <2>5
<1>9. CASE g = "jobs"
  <2> DEFINE u == [t EXCEPT !["jobs"] = Tail(@)]
  <2>1. u.skills = t.skills /\ u.project = t.project /\ u.jobs = Tail(t.jobs)
    BY DEF Left
  <2>2. t.jobs \in {<<"rewriteJobs">>, <<>>, <<"failed">>}
    BY DEF Left
  <2>3. Tail(t.jobs) = <<>> /\ Len(Tail(t.jobs)) = Len(t.jobs) - 1
    BY <1>4, <1>9, <2>2
  <2>4. u \in Left
    BY <2>3 DEF Left
  <2>5. CallsLeft(u) = CallsLeft(t) - 1 /\ CallsLeft(t) \in Nat
    <3>1. Len(u.jobs) = Len(t.jobs) - 1 /\ Len(u.skills) = Len(t.skills) /\ Len(u.project) = Len(t.project)
      BY <2>1, <2>3
    <3>2. CallsLeft(u) = CallsLeft(t) - 1
      <4> HIDE DEF u
      <4> QED BY <1>5, <3>1 DEF CallsLeft
    <3> QED BY <1>6, <3>2
  <2> QED
    BY <1>3, <1>9, <2>1, <2>3, <2>4, <2>5
<1> QED
  BY <1>7, <1>8, <1>9

\* A sum follows the one request that is charged.
LEMMA OneIsCharged ==
    ASSUME NEW f, NEW g, NEW r \in Procs,
           \A j \in Procs : f[j] \in Nat,
           \A j \in Procs : g[j] \in Nat,
           \A j \in Procs \ {r} : g[j] = f[j]
    PROVE  Analyses!SumOver(g, Procs) = Analyses!SumOver(f, Procs) + g[r] - f[r]
<1>1. Analyses!IsFiniteSet(Procs)
  BY AccountAssumption DEF Analyses!IsFiniteSet, IsFiniteSet
<1> QED
  BY <1>1, Analyses!SumChange

\* What is charged leaves the balance.
LEMMA ChargeAddsUp ==
    ASSUME AnalysisInv, NEW r \in Procs, NEW c \in {0, 1}, Analyses!Charge(r, c)
    PROVE  /\ s1' \in Nat /\ s6' \in [Procs -> Nat]
           /\ s1' + Analyses!SumOver(s6', Procs) = Funds
<1>1. /\ s1' = s1 - c /\ s6' = [s6 EXCEPT ![r] = @ + c] /\ c <= s1
      /\ s1 \in Nat /\ s6 \in [Procs -> Nat]
  BY DEF Analyses!Charge, AnalysisInv, AnalysisType
<1>2. Analyses!IsFiniteSet(Procs)
  BY AccountAssumption DEF Analyses!IsFiniteSet, IsFiniteSet
<1>3. s6' \in [Procs -> Nat] /\ s6'[r] = s6[r] + c /\ \A j \in Procs \ {r} : s6'[j] = s6[j]
  BY <1>1
<1>4. Analyses!SumOver(s6', Procs) = Analyses!SumOver(s6, Procs) + s6'[r] - s6[r]
  <2>1. (\A j \in Procs : s6[j] \in Nat) /\ (\A j \in Procs : s6'[j] \in Nat)
    BY <1>1, <1>3
  <2> QED
    BY <1>3, <2>1, OneIsCharged
<1>5. Analyses!SumOver(s6, Procs) \in Nat
  BY <1>1, <1>2, Analyses!SumType
<1>6. s1 + Analyses!SumOver(s6, Procs) = Funds /\ s6[r] \in Nat /\ s6'[r] = s6[r] + c
  BY <1>1, <1>3 DEF AnalysisInv
<1>7. s1' \in Nat /\ s1' = s1 - c
  BY <1>1
<1> DEFINE before == Analyses!SumOver(s6, Procs)
           after == Analyses!SumOver(s6', Procs)
<1>8. before \in Nat /\ after = before + s6'[r] - s6[r] /\ s1 + before = Funds
  BY <1>4, <1>5, <1>6
<1>9. s1' + after = Funds
  <2> HIDE DEF before, after
  <2> QED BY <1>1, <1>6, <1>7, <1>8
<1> QED
  BY <1>3, <1>7, <1>9

LEMMA AnalysisNext == AnalysisInv /\ [Analyses!Next]_Analyses!analysisVars => AnalysisInv'
<1> SUFFICES ASSUME AnalysisInv, [Analyses!Next]_Analyses!analysisVars PROVE AnalysisInv'
  OBVIOUS
<1> USE DEF Analyses!Running, Analyses!Goroutines
<1>0. AnalysisType
  BY DEF AnalysisInv
<1>1. ASSUME NEW r \in Procs, NEW g \in {"skills", "project", "jobs"}, Analyses!Invoke(r, g)
      PROVE  AnalysisInv'
  <2>0. s2[r] \in Left /\ s2[r][g] \notin {<<>>, <<"failed">>}
    BY <1>0, <1>1 DEF Analyses!Invoke, AnalysisType
  <2>1. /\ s2' = [s2 EXCEPT ![r] = [s2[r] EXCEPT ![g] = Tail(@)]]
        /\ s4' = [s4 EXCEPT ![r] = @ + 1] /\ s6' = [s6 EXCEPT ![r] = @ + 1]
        /\ UNCHANGED <<s3, s5>>
    BY <1>0, <1>1 DEF Analyses!Invoke, Analyses!Add, Analyses!Charge, AnalysisType
  <2> DEFINE t == [s2[r] EXCEPT ![g] = Tail(@)]
  <2>2. /\ t \in Left /\ CallsLeft(t) = CallsLeft(s2[r]) - 1 /\ CallsLeft(s2[r]) \in Nat
        /\ \A h \in {"skills", "project", "jobs"} : t[h] = <<"failed">> => s2[r][h] = <<"failed">>
    BY <2>0, TailLeft
  <2> HIDE DEF t
  <2>3. s2' = [s2 EXCEPT ![r] = t]
    BY <2>1 DEF t
  <2>4. s1' \in Nat /\ s6' \in [Procs -> Nat] /\ s1' + Analyses!SumOver(s6', Procs) = Funds
    BY <1>1, ChargeAddsUp DEF Analyses!Invoke
  <2>5. AnalysisType' /\ s1' + Analyses!SumOver(s6', Procs) = Funds
    <3>1. s2' \in [Procs -> Left]
      BY <1>0, <2>2, <2>3 DEF AnalysisType
    <3>2. s4' \in [Procs -> Nat] /\ s3' = s3 /\ s5' = s5
      BY <1>0, <2>1 DEF AnalysisType
    <3> QED
      BY <1>0, <2>4, <3>1, <3>2 DEF AnalysisType
  <2>6. AnalysisCall(r)'
    <3>1. s2'[r] = t /\ s4'[r] = s4[r] + 1 /\ s6'[r] = s6[r] + 1 /\ s3'[r] = s3[r] /\ s5'[r] = s5[r]
      BY <1>0, <2>1, <2>3 DEF AnalysisType
    <3>2. AnalysisCall(r) /\ s4[r] \in Nat /\ s6[r] \in Nat
      BY <1>0 DEF AnalysisInv, AnalysisType
    <3>3. s3[r] = "none"
      BY <2>0, <3>2 DEF AnalysisCall
    <3> QED
      BY <2>2, <3>1, <3>2, <3>3 DEF AnalysisCall
  <2>7. \A q \in Procs \ {r} : AnalysisCall(q)'
    BY <1>0, <2>1 DEF AnalysisInv, AnalysisType, AnalysisCall
  <2> QED
    BY <2>5, <2>6, <2>7 DEF AnalysisInv
<1>2. ASSUME NEW r \in Procs, NEW g \in {"skills", "project", "jobs"}, Analyses!InvokeFails(r, g)
      PROVE  AnalysisInv'
  <2>0. s2[r] \in Left /\ s2[r][g] \notin {<<>>, <<"failed">>}
    BY <1>0, <1>2 DEF Analyses!InvokeFails, AnalysisType
  <2>1. PICK why \in {"noCredit", "error"}, c \in {0, 1} :
            /\ Analyses!Charge(r, c) /\ Analyses!Add(r, FALSE, c)
            /\ s5' = [s5 EXCEPT ![r] = IF @ = "none" THEN why ELSE @]
    BY <1>2 DEF Analyses!InvokeFails
  <2>2. /\ s2' = [s2 EXCEPT ![r] = [s2[r] EXCEPT ![g] = <<"failed">>]]
        /\ s4' = s4 /\ s3' = s3 /\ s6' = [s6 EXCEPT ![r] = @ + c]
    BY <1>0, <1>2, <2>1 DEF Analyses!InvokeFails, Analyses!Add, Analyses!Charge, AnalysisType
  <2>3. [s2[r] EXCEPT ![g] = <<"failed">>] \in Left
    BY <2>0 DEF Left
  <2>4. AnalysisType' /\ s1' + Analyses!SumOver(s6', Procs) = Funds
    BY <1>0, <2>1, <2>2, <2>3, ChargeAddsUp DEF AnalysisType
  <2>5. AnalysisCall(r)'
    BY <1>0, <2>0, <2>1, <2>2 DEF AnalysisInv, AnalysisType, AnalysisCall
  <2>6. \A q \in Procs \ {r} : AnalysisCall(q)'
    BY <1>0, <2>1, <2>2 DEF AnalysisInv, AnalysisType, AnalysisCall
  <2> QED
    BY <2>4, <2>5, <2>6 DEF AnalysisInv
<1>3. ASSUME NEW r \in Procs, Analyses!Answer(r)
      PROVE  AnalysisInv'
  <2>1. AnalysisType' /\ s1' + Analyses!SumOver(s6', Procs) = Funds
    BY <1>0, <1>3 DEF Analyses!Answer, AnalysisType, AnalysisInv
  <2>2. \A q \in Procs : AnalysisCall(q)'
    BY <1>0, <1>3 DEF Analyses!Answer, Analyses!Over, AnalysisType, AnalysisInv, AnalysisCall
  <2> QED
    BY <2>1, <2>2 DEF AnalysisInv
<1>4. CASE UNCHANGED Analyses!analysisVars
  BY <1>4 DEF Analyses!analysisVars, AnalysisInv, AnalysisType, AnalysisCall
<1> QED
  BY <1>1, <1>2, <1>3, <1>4 DEF Analyses!Next

LEMMA AnalysisInit == Analyses!Init => AnalysisInv
<1> SUFFICES ASSUME Analyses!Init PROVE AnalysisInv
  OBVIOUS
<1> DEFINE all == [skills |-> <<"skillKeypoint", "rewriteSkills">>,
                   project |-> <<"rewriteProject", "evaluatePrj">>, jobs |-> <<"rewriteJobs">>]
<1>1. s2 = [r \in Procs |-> all] /\ all \in Left /\ CallsLeft(all) = 5
  BY DEF Analyses!Init, Analyses!Calls, Analyses!Skills, Analyses!Project, Analyses!Jobs, Left,
         CallsLeft
<1>2. \A g \in {"skills", "project", "jobs"} : all[g] # <<"failed">>
  OBVIOUS
<1>3. AnalysisType
  BY <1>1, CommunityAssumption DEF Analyses!Init, AnalysisType
<1>4. Analyses!SumOver(s6, Procs) = 0
  BY Analyses!SumZero DEF Analyses!Init
<1>5. \A r \in Procs : AnalysisCall(r)
  <2> HIDE DEF all
  <2> QED BY <1>1, <1>2 DEF Analyses!Init, AnalysisCall
<1> QED
  BY <1>3, <1>4, <1>5, CommunityAssumption DEF AnalysisInv, Analyses!Init

LEMMA AnalysisIsRight == AnalysisInv => Analyses!AmountIsTold
<1> SUFFICES ASSUME AnalysisInv PROVE Analyses!AmountIsTold
  OBVIOUS
<1>1. ASSUME NEW r \in Procs, s3[r] = "ok" PROVE s4[r] = s6[r] /\ s4[r] = 5
  <2>1. /\ s4[r] = s6[r] /\ s4[r] + CallsLeft(s2[r]) = 5 /\ s4[r] \in Nat
        /\ s2[r].skills = <<>> /\ s2[r].project = <<>> /\ s2[r].jobs = <<>>
    BY <1>1 DEF AnalysisInv, AnalysisType, AnalysisCall
  <2>2. CallsLeft(s2[r]) = 0
    BY <2>1 DEF CallsLeft
  <2> QED
    BY <2>1, <2>2
<1> QED
  BY <1>1 DEF AnalysisInv, AnalysisType, AnalysisCall, Analyses!AmountIsTold, Analyses!Running,
              Analyses!Goroutines

-----------------------------------------------------------------------------
(***************************************************************************)
(* Feedback.                                                               *)
(***************************************************************************)
LEMMA OpinionsCardinality ==
    ASSUME NEW S PROVE Opinions!Cardinality(S) = Cardinality(S)
BY DEF Opinions!Cardinality, Cardinality

EventsFor(f) == {e \in s2 : e.bizId = f}
SendersFor(f) == {p \in Procs : call[p].op = "produce" /\ call[p].id = f}

\* A decision under way is about a feedback there is, and knows whose it is.
DecisionOf(p) ==
    \/ call[p] = Opinions!Idle
    \/ /\ call[p] \in [op : {"update", "produce"}, id : DOMAIN s1, uid : Nat, status : {1, 2}]
       /\ call[p].uid = s1[call[p].id].uid

OpinionsInv ==
    /\ s1 \in Seq([uid : Nat, status : {0, 1, 2}]) /\ Len(s1) <= MaxFeedback
    /\ DOMAIN call = Procs /\ call = [p \in Procs |-> call[p]]
    /\ \A p \in Procs : DecisionOf(p)
    /\ s5 \in [1 .. MaxFeedback -> Nat] /\ s6 \in [1 .. MaxFeedback -> Nat]
    /\ IsFiniteSet(s2)
    /\ \A e \in s2 : /\ e.bizId \in DOMAIN s1 /\ e.uid = s1[e.bizId].uid
                     /\ e.key \in 1 .. Cardinality(s2)
    /\ \A f \in 1 .. MaxFeedback :
           Cardinality(EventsFor(f)) + Cardinality(SendersFor(f)) + s6[f] = s5[f]

LEMMA OpinionsFinite ==
    ASSUME OpinionsInv, NEW f
    PROVE  /\ IsFiniteSet(EventsFor(f)) /\ Cardinality(EventsFor(f)) \in Nat
           /\ IsFiniteSet(SendersFor(f)) /\ Cardinality(SendersFor(f)) \in Nat
<1>1. EventsFor(f) \subseteq s2 /\ SendersFor(f) \subseteq Procs
  BY DEF EventsFor, SendersFor
<1>2. IsFiniteSet(EventsFor(f)) /\ IsFiniteSet(SendersFor(f))
  BY <1>1, FS_Subset, AccountAssumption, CommunityAssumption DEF OpinionsInv
<1> QED
  BY <1>2, FS_CardinalityType

\* Rows keep their users when one is added or decided.
LEMMA OpinionsNext == OpinionsInv /\ [Opinions!Next]_Opinions!feedbackVars => OpinionsInv'
<1> SUFFICES ASSUME OpinionsInv, [Opinions!Next]_Opinions!feedbackVars PROVE OpinionsInv'
  OBVIOUS
<1> DEFINE Row == [uid : Nat, status : {0, 1, 2}]
<1>0. /\ s1 \in Seq(Row) /\ Len(s1) <= MaxFeedback /\ Len(s1) \in Nat /\ DOMAIN s1 = 1 .. Len(s1)
      /\ MaxFeedback \in Nat /\ DOMAIN call = Procs
      /\ s5 \in [1 .. MaxFeedback -> Nat] /\ s6 \in [1 .. MaxFeedback -> Nat]
      /\ IsFiniteSet(s2) /\ Cardinality(s2) \in Nat
  BY AccountAssumption, CommunityAssumption, FS_CardinalityType DEF OpinionsInv
<1>00. \A i \in DOMAIN s1 : s1[i] \in Row
  <2> HIDE DEF Row
  <2> QED BY <1>0
<1>1. ASSUME Opinions!Create PROVE OpinionsInv'
  <2> DEFINE row == [uid |-> Len(s1) + 1, status |-> 0]
  <2>1. /\ s1' = Append(s1, row) /\ Len(s1) < MaxFeedback
        /\ UNCHANGED <<call, s2, s5, s6>>
    BY <1>1 DEF Opinions!Create, Opinions!toEntity, Opinions!Pending
  <2>2. row \in Row
    BY <1>0
  <2>3. /\ s1' \in Seq(Row) /\ Len(s1') = Len(s1) + 1 /\ Len(s1') <= MaxFeedback
        /\ DOMAIN s1' = 1 .. Len(s1) + 1
        /\ \A i \in DOMAIN s1 : i \in DOMAIN s1' /\ s1'[i] = s1[i]
    <3> HIDE DEF row, Row
    <3> QED BY <1>0, <2>1, <2>2
  <2>4. \A p \in Procs : DecisionOf(p)'
    BY <1>0, <2>1, <2>3 DEF OpinionsInv, DecisionOf
  <2>5. \A e \in s2' : /\ e.bizId \in DOMAIN s1' /\ e.uid = s1'[e.bizId].uid
                       /\ e.key \in 1 .. Cardinality(s2')
    BY <2>1, <2>3 DEF OpinionsInv
  <2>6. \A f : EventsFor(f)' = EventsFor(f) /\ SendersFor(f)' = SendersFor(f)
    BY <2>1 DEF EventsFor, SendersFor
  <2> QED
    BY <2>1, <2>3, <2>4, <2>5, <2>6 DEF OpinionsInv
<1>2. ASSUME NEW p \in Procs, Opinions!UpdateStatus(p) PROVE OpinionsInv'
  <2>1. PICK f \in DOMAIN s1, s \in {1, 2} :
            /\ call[p] = Opinions!Idle
            /\ call' = [call EXCEPT ![p] = [op |-> "update", id |-> f, uid |-> s1[f].uid, status |-> s]]
    BY <1>2 DEF Opinions!UpdateStatus, Opinions!Info, Opinions!Goto, Opinions!Adopt,
                Opinions!Reject
  <2>2. UNCHANGED <<s1, s2, s5, s6>>
    BY <1>2 DEF Opinions!UpdateStatus
  <2>3. s1[f].uid \in Nat
    BY <1>00
  <2>4. \A q \in Procs : DecisionOf(q)'
    BY <1>0, <2>1, <2>2, <2>3 DEF OpinionsInv, DecisionOf
  <2>5. \A g : EventsFor(g)' = EventsFor(g) /\ SendersFor(g)' = SendersFor(g)
    BY <1>0, <2>1, <2>2 DEF EventsFor, SendersFor, Opinions!Idle
  <2>6. DOMAIN call' = Procs /\ call' = [q \in Procs |-> call'[q]]
    BY <1>0, <2>1 DEF OpinionsInv
  <2> QED
    BY <2>2, <2>4, <2>5, <2>6 DEF OpinionsInv
<1>3. ASSUME NEW p \in Procs, Opinions!Update(p) PROVE OpinionsInv'
  <2> DEFINE c == call[p]
  <2>1. /\ c \in [op : {"update", "produce"}, id : DOMAIN s1, uid : Nat, status : {1, 2}]
        /\ c.op = "update" /\ c.uid = s1[c.id].uid /\ c.id \in 1 .. MaxFeedback
    BY <1>0, <1>3 DEF OpinionsInv, DecisionOf, Opinions!Update, Opinions!Idle
  <2>2. UNCHANGED <<s2, s6>>
    BY <1>3 DEF Opinions!Update
  <2>3. PICK updated \in BOOLEAN :
            /\ IF updated
               THEN /\ s1' = [s1 EXCEPT ![c.id].status = c.status]
                    /\ s5' = IF c.status = 1 THEN [s5 EXCEPT ![c.id] = @ + 1] ELSE s5
               ELSE UNCHANGED <<s1, s5>>
            /\ call' = [call EXCEPT ![p] = IF updated /\ c.status = 1 THEN [c EXCEPT !.op = "produce"]
                                           ELSE Opinions!Idle]
    BY <1>3 DEF Opinions!Update, Opinions!Rewarded, Opinions!Goto, Opinions!Return,
                Opinions!Count, Opinions!Adopt
  <2>4. /\ s1' \in Seq(Row) /\ Len(s1') = Len(s1) /\ DOMAIN s1' = DOMAIN s1
        /\ \A i \in DOMAIN s1 : s1'[i].uid = s1[i].uid
    <3>1. CASE updated
      <4>2. [s1[c.id] EXCEPT !.status = c.status] \in Row
        BY <1>00, <2>1
      <4>3. s1' = [s1 EXCEPT ![c.id] = [s1[c.id] EXCEPT !.status = c.status]]
        BY <2>3, <3>1
      <4>4. [s1[c.id] EXCEPT !.status = c.status].uid = s1[c.id].uid
        BY <1>00, <2>1
      <4> DEFINE new == [s1[c.id] EXCEPT !.status = c.status]
      <4> HIDE DEF new, Row, c
      <4> QED BY <1>0, <2>1, <4>2, <4>3, <4>4 DEF new
    <3> QED
      BY <1>0, <2>3, <3>1
  <2>5. \A q \in Procs : DecisionOf(q)'
    <3>1. \A q \in Procs \ {p} : call'[q] = call[q]
      BY <1>0, <2>3
    <3>2. \A q \in Procs \ {p} : DecisionOf(q)'
      BY <2>4, <3>1 DEF OpinionsInv, DecisionOf
    <3>3. call'[p] = Opinions!Idle \/ call'[p] = [c EXCEPT !.op = "produce"]
      BY <1>0, <2>3
    <3>4. DecisionOf(p)'
      BY <2>1, <2>4, <3>3 DEF DecisionOf
    <3> QED
      BY <3>2, <3>4
  <2>6. \A e \in s2' : /\ e.bizId \in DOMAIN s1' /\ e.uid = s1'[e.bizId].uid
                       /\ e.key \in 1 .. Cardinality(s2')
    BY <2>2, <2>4 DEF OpinionsInv
  <2>7. DOMAIN call' = Procs /\ call' = [q \in Procs |-> call'[q]]
    BY <1>0, <2>3 DEF OpinionsInv
  <2>8. s5' \in [1 .. MaxFeedback -> Nat]
    BY <1>0, <2>3
  <2>9. ASSUME NEW f \in 1 .. MaxFeedback
        PROVE  Cardinality(EventsFor(f)') + Cardinality(SendersFor(f)') + s6'[f] = s5'[f]
    <3>1. EventsFor(f)' = EventsFor(f)
      BY <2>2 DEF EventsFor
    <3>2. Cardinality(EventsFor(f)) + Cardinality(SendersFor(f)) + s6[f] = s5[f]
      BY DEF OpinionsInv
    <3>3. p \notin SendersFor(f)
      BY <2>1 DEF SendersFor
    <3>4. CASE updated /\ c.status = 1 /\ f = c.id
      <4>1. SendersFor(f)' = SendersFor(f) \cup {p}
        BY <1>0, <2>1, <2>3, <3>4 DEF SendersFor
      <4>2. Cardinality(SendersFor(f)') = Cardinality(SendersFor(f)) + 1
        BY <3>3, <4>1, OneMore, OpinionsFinite
      <4>3. s5'[f] = s5[f] + 1 /\ s6'[f] = s6[f] /\ s5[f] \in Nat /\ s6[f] \in Nat
        BY <1>0, <2>2, <2>3, <3>4
      <4> QED
        BY <3>1, <3>2, <4>2, <4>3, OpinionsFinite
    <3>5. CASE ~(updated /\ c.status = 1 /\ f = c.id)
      <4>1. SendersFor(f)' = SendersFor(f)
        BY <1>0, <2>1, <2>3, <3>5 DEF SendersFor, Opinions!Idle
      <4>2. s5'[f] = s5[f] /\ s6'[f] = s6[f]
        BY <1>0, <2>2, <2>3, <3>5
      <4> QED
        BY <3>1, <3>2, <4>1, <4>2
    <3> QED
      BY <3>4, <3>5
  <2> QED
    BY <1>0, <2>2, <2>4, <2>5, <2>6, <2>7, <2>8, <2>9 DEF OpinionsInv
<1>4. ASSUME NEW p \in Procs, Opinions!Produce(p) PROVE OpinionsInv'
  <2>0. PICK f : f = call[p].id
    OBVIOUS
  <2> DEFINE new == [key |-> Cardinality(s2) + 1, uid |-> call[p].uid, bizId |-> f, amount |-> 100]
  <2>1. /\ f \in DOMAIN s1 /\ f \in 1 .. MaxFeedback
        /\ call[p].op = "produce" /\ call[p].uid = s1[f].uid
    BY <1>0, <1>4, <2>0 DEF OpinionsInv, DecisionOf, Opinions!Produce, Opinions!Idle
  <2>2. /\ UNCHANGED <<s1, s5>> /\ call' = [call EXCEPT ![p] = Opinions!Idle]
    BY <1>4 DEF Opinions!Produce, Opinions!Return, Opinions!Goto
  <2>3. \/ s2' = s2 \cup {new} /\ UNCHANGED s6
        \/ s6' = [s6 EXCEPT ![f] = @ + 1] /\ UNCHANGED s2
    BY <1>4, <2>0, OpinionsCardinality DEF Opinions!Produce, Opinions!Count
  <2>4. \A q \in Procs : DecisionOf(q)'
    BY <1>0, <2>2 DEF OpinionsInv, DecisionOf
  <2>5. DOMAIN call' = Procs /\ call' = [q \in Procs |-> call'[q]]
    BY <1>0, <2>2 DEF OpinionsInv
  <2>6. /\ SendersFor(f)' = SendersFor(f) \ {p} /\ p \in SendersFor(f)
        /\ \A g : g # f => SendersFor(g)' = SendersFor(g)
    <3>1. call'[p].op = "idle" /\ \A q \in Procs \ {p} : call'[q] = call[q]
      BY <1>0, <2>2 DEF Opinions!Idle
    <3>2. \A g : SendersFor(g)' = {q \in Procs \ {p} : call[q].op = "produce" /\ call[q].id = g}
      BY <3>1 DEF SendersFor
    <3>3. p \in SendersFor(f)
      BY <2>0, <2>1 DEF SendersFor
    <3>4. SendersFor(f)' = SendersFor(f) \ {p}
      BY <3>2 DEF SendersFor
    <3>5. \A g : g # f => SendersFor(g)' = SendersFor(g)
      BY <2>0, <3>2 DEF SendersFor
    <3> QED
      BY <3>3, <3>4, <3>5
  <2>7. Cardinality(SendersFor(f)') = Cardinality(SendersFor(f)) - 1
    BY <2>6, OneLess, OpinionsFinite
  <2>8. \A g \in 1 .. MaxFeedback :
            /\ Cardinality(EventsFor(g)) + Cardinality(SendersFor(g)) + s6[g] = s5[g]
            /\ s5[g] \in Nat /\ s6[g] \in Nat
    BY <1>0 DEF OpinionsInv
  <2>9. CASE s2' = s2 \cup {new} /\ UNCHANGED s6
    <3>1. \A e \in s2 : e.key \in 1 .. Cardinality(s2)
      BY DEF OpinionsInv
    <3>2. new \notin s2
      BY <1>0, <3>1
    <3>3. IsFiniteSet(s2') /\ Cardinality(s2') = Cardinality(s2) + 1
      <4> HIDE DEF new
      <4> QED BY <1>0, <2>9, <3>2, OneMore
    <3>4. \A e \in s2' : /\ e.bizId \in DOMAIN s1' /\ e.uid = s1'[e.bizId].uid
                         /\ e.key \in 1 .. Cardinality(s2')
      <4>1. new.bizId = f /\ new.uid = s1[f].uid /\ new.key = Cardinality(s2) + 1
        BY <2>1
      <4>2. \A e \in s2 : e.bizId \in DOMAIN s1 /\ e.uid = s1[e.bizId].uid /\ e.key \in 1 .. Cardinality(s2)
        BY DEF OpinionsInv
      <4> DEFINE n == Cardinality(s2)
      <4>3. n \in Nat /\ Cardinality(s2') = n + 1
        BY <1>0, <3>3
      <4>4. n + 1 \in 1 .. n + 1 /\ \A k \in 1 .. n : k \in 1 .. n + 1
        <5> HIDE DEF n
        <5> QED BY <4>3
      <4>5. \A e \in s2' : e \in s2 \/ e = new
        BY <2>9
      <4> HIDE DEF new
      <4> QED BY <2>1, <2>2, <4>1, <4>2, <4>3, <4>4, <4>5
    <3>5. /\ EventsFor(f)' = EventsFor(f) \cup {new} /\ new \notin EventsFor(f)
          /\ \A g : g # f => EventsFor(g)' = EventsFor(g)
      <4>1. new.bizId = f
        OBVIOUS
      <4>2. \A g : EventsFor(g)' = {e \in s2 \cup {new} : e.bizId = g}
        BY <2>9 DEF EventsFor
      <4> HIDE DEF new
      <4>3. EventsFor(f)' = EventsFor(f) \cup {new}
        BY <4>1, <4>2 DEF EventsFor
      <4>4. \A g : g # f => EventsFor(g)' = EventsFor(g)
        BY <4>1, <4>2 DEF EventsFor
      <4> QED BY <3>2, <4>3, <4>4 DEF EventsFor
    <3>6. Cardinality(EventsFor(f)') = Cardinality(EventsFor(f)) + 1
      <4> HIDE DEF new
      <4> QED BY <3>5, OneMore, OpinionsFinite
    <3>7. ASSUME NEW g \in 1 .. MaxFeedback
          PROVE  Cardinality(EventsFor(g)') + Cardinality(SendersFor(g)') + s6'[g] = s5'[g]
      <4>1. CASE g = f
        <5> HIDE DEF new
        <5>1. Cardinality(EventsFor(g)') = Cardinality(EventsFor(g)) + 1
          BY <3>6, <4>1
        <5>2. Cardinality(SendersFor(g)') = Cardinality(SendersFor(g)) - 1
          BY <2>7, <4>1
        <5>3. Cardinality(EventsFor(g)) \in Nat /\ Cardinality(SendersFor(g)) \in Nat
          BY OpinionsFinite
        <5>4. s6'[g] = s6[g] /\ s5'[g] = s5[g]
          BY <2>2, <2>9
        <5> QED
          BY <2>8, <5>1, <5>2, <5>3, <5>4
      <4>2. CASE g # f
        <5> HIDE DEF new
        <5> QED BY <2>2, <2>6, <2>8, <2>9, <3>5, <4>2
      <4> QED
        BY <4>1, <4>2
    <3> QED
      BY <1>0, <2>2, <2>4, <2>5, <2>9, <3>3, <3>4, <3>7 DEF OpinionsInv
  <2>10. CASE s6' = [s6 EXCEPT ![f] = @ + 1] /\ UNCHANGED s2
    <3>1. s6' \in [1 .. MaxFeedback -> Nat] /\ s6'[f] = s6[f] + 1
          /\ \A g \in 1 .. MaxFeedback : g # f => s6'[g] = s6[g]
      <4> QED BY <1>0, <2>1, <2>10
    <3>2. \A g : EventsFor(g)' = EventsFor(g)
      BY <2>10 DEF EventsFor
    <3>3. ASSUME NEW g \in 1 .. MaxFeedback
          PROVE  Cardinality(EventsFor(g)') + Cardinality(SendersFor(g)') + s6'[g] = s5'[g]
      <4>1. CASE g = f
        <5>1. EventsFor(g)' = EventsFor(g)
          BY <3>2
        <5>2. Cardinality(SendersFor(g)') = Cardinality(SendersFor(g)) - 1
          BY <2>7, <4>1
        <5>3. Cardinality(EventsFor(g)) \in Nat /\ Cardinality(SendersFor(g)) \in Nat
          BY OpinionsFinite
        <5>4. s6'[g] = s6[g] + 1 /\ s5'[g] = s5[g]
          BY <2>2, <3>1, <4>1
        <5> QED
          BY <2>8, <5>1, <5>2, <5>3, <5>4
      <4>2. CASE g # f
        <5> QED BY <2>2, <2>6, <2>8, <3>1, <3>2, <4>2
      <4> QED
        BY <4>1, <4>2
    <3>4. \A e \in s2' : /\ e.bizId \in DOMAIN s1' /\ e.uid = s1'[e.bizId].uid
                         /\ e.key \in 1 .. Cardinality(s2')
      BY <2>2, <2>10 DEF OpinionsInv
    <3> QED
      BY <1>0, <2>2, <2>4, <2>5, <2>10, <3>1, <3>3, <3>4 DEF OpinionsInv
  <2> QED
    BY <2>3, <2>9, <2>10
<1>5. ASSUME UNCHANGED <<s1, call, s2, s5, s6>> PROVE OpinionsInv'
  BY <1>5 DEF OpinionsInv, DecisionOf, EventsFor, SendersFor
<1> QED
  BY <1>1, <1>2, <1>3, <1>4, <1>5 DEF Opinions!Next, Opinions!List, Opinions!feedbackVars

LEMMA OpinionsInit == Opinions!Init => OpinionsInv
<1> SUFFICES ASSUME Opinions!Init PROVE OpinionsInv
  OBVIOUS
<1>1. s2 = {} /\ \A p \in Procs : call[p] = Opinions!Idle
  BY DEF Opinions!Init
<1>2. \A f : EventsFor(f) = {} /\ SendersFor(f) = {}
  BY <1>1 DEF EventsFor, SendersFor, Opinions!Idle
<1>3. IsFiniteSet({}) /\ Cardinality({}) = 0
  BY FS_EmptySet
<1>4. s5 = [f \in 1 .. MaxFeedback |-> 0] /\ s6 = [f \in 1 .. MaxFeedback |-> 0] /\ s1 = <<>>
      /\ call = [p \in Procs |-> Opinions!Idle]
  BY DEF Opinions!Init
<1>5. s1 \in Seq([uid : Nat, status : {0, 1, 2}]) /\ Len(s1) <= MaxFeedback
  BY <1>4, CommunityAssumption
<1>6. \A f \in 1 .. MaxFeedback :
          Cardinality(EventsFor(f)) + Cardinality(SendersFor(f)) + s6[f] = s5[f]
  <2>1. ASSUME NEW f \in 1 .. MaxFeedback
        PROVE  Cardinality(EventsFor(f)) = 0 /\ Cardinality(SendersFor(f)) = 0 /\ s6[f] = 0 /\ s5[f] = 0
    BY <1>2, <1>3, <1>4
  <2> QED
    BY <2>1
<1> QED
  BY <1>1, <1>3, <1>4, <1>5, <1>6 DEF OpinionsInv, DecisionOf

LEMMA OpinionsAreRight == OpinionsInv => Opinions!RewardsAreDue
<1> SUFFICES ASSUME OpinionsInv PROVE Opinions!RewardsAreDue
  OBVIOUS
<1>1. DOMAIN s1 \subseteq 1 .. MaxFeedback
  BY CommunityAssumption DEF OpinionsInv
<1>2. \A f : Opinions!Sent(f) = Cardinality(EventsFor(f)) /\ Opinions!Sending(f) = Cardinality(SendersFor(f))
  BY OpinionsCardinality DEF Opinions!Sent, Opinions!Sending, EventsFor, SendersFor
<1> QED
  BY <1>1, <1>2 DEF OpinionsInv, Opinions!RewardsAreDue

-----------------------------------------------------------------------------
(***************************************************************************)
(* Recordings of interviews.                                               *)
(***************************************************************************)
Handed == [uid : Nat, status : {"INIT", "ACCEPTED", "REJECTED"}]
Grants == [key : Nat, uid : Nat, days : {30}, bizId : Nat, at : Nat]

AcceptedIn(i) == "ACCEPTED" \in s6[i]
Rewarding(i) == [op |-> "accepted", id |-> i]

\* A ruling under way is about a recording that was accepted.
RulingOf(p) ==
    \/ call[p] = Recordings!Idle
    \/ \E i \in DOMAIN s1 : AcceptedIn(i) /\ call[p] = Rewarding(i)
    \/ \E i \in DOMAIN s1 : AcceptedIn(i) /\ call[p] = [op |-> "send", id |-> i, uid |-> s1[i].uid]

\* What an acceptance leads to.
Settled(i) ==
    \/ \E n \in DOMAIN s3 : s3[n].bizId = i /\ s3[n].uid = s1[i].uid
    \/ \E p \in Procs : call[p] = Rewarding(i)
    \/ i \in s7

MaterialInv ==
    /\ s1 \in Seq(Handed) /\ Len(s1) <= MaxMaterials
    /\ s3 \in Seq(Grants) /\ s4 \in Nat
    /\ \A n \in DOMAIN s3 : s3[n].key = s3[n].at
    /\ DOMAIN call = Procs
    /\ DOMAIN s6 = 1 .. MaxMaterials
    /\ \A i \in DOMAIN s1 : s1[i].status \in s6[i]
    /\ \A p \in Procs : RulingOf(p)
    /\ \A i \in DOMAIN s1 : AcceptedIn(i) => Settled(i)
    /\ \A t \in s5 : t.id \in DOMAIN s1 /\ AcceptedIn(t.id) /\ s1[t.id].uid = t.uid

\* Rows keep their users, and what was decided and sent stays so.
Stays ==
    /\ DOMAIN s1 \subseteq DOMAIN s1'
    /\ \A i \in DOMAIN s1 : s1'[i].uid = s1[i].uid /\ s6[i] \subseteq s6'[i]
    /\ DOMAIN s3 \subseteq DOMAIN s3'
    /\ \A n \in DOMAIN s3 : s3'[n] = s3[n]
    /\ s7 \subseteq s7'

\* A decision about one row changes its status and nothing else of it.
LEMMA DecisionKeeps ==
    ASSUME MaterialInv, NEW i \in DOMAIN s1, NEW status \in {"ACCEPTED", "REJECTED"},
           Recordings!Stored(i, status)
    PROVE  /\ s1' \in Seq(Handed) /\ Len(s1') = Len(s1) /\ DOMAIN s1' = DOMAIN s1
           /\ \A j \in DOMAIN s1 : s1'[j].uid = s1[j].uid /\ s6[j] \subseteq s6'[j]
           /\ \A j \in DOMAIN s1 : j # i => s6'[j] = s6[j]
           /\ \A j \in DOMAIN s1 : s1'[j].status \in s6'[j]
           /\ DOMAIN s6' = DOMAIN s6
           /\ status \in s6'[i]
<1>1. /\ s1' = [s1 EXCEPT ![i].status = status]
      /\ s6' = [s6 EXCEPT ![i] = @ \cup {status}]
  BY DEF Recordings!Stored
<1>2. \A j \in DOMAIN s1 : s1[j] \in Handed /\ j \in DOMAIN s6
  <2>1. \A j \in DOMAIN s1 : s1[j] \in Handed
    <3>1. s1 \in Seq(Handed)
      BY DEF MaterialInv
    <3> QED
      BY <3>1
  <2> QED
    BY <2>1, CommunityAssumption DEF MaterialInv
<1> DEFINE new == [s1[i] EXCEPT !.status = status]
<1>3. new \in Handed /\ new.uid = s1[i].uid /\ new.status = status
  BY <1>2 DEF Handed
<1>4. s1' = [s1 EXCEPT ![i] = new] /\ s1 \in Seq(Handed)
  BY <1>1 DEF MaterialInv
<1>5. s1' \in Seq(Handed) /\ Len(s1') = Len(s1) /\ DOMAIN s1' = DOMAIN s1
      /\ s1'[i] = new /\ \A j \in DOMAIN s1 : j # i => s1'[j] = s1[j]
  <2> HIDE DEF new
  <2> QED BY <1>3, <1>4
<1>6. /\ \A j \in DOMAIN s1 : s6[j] \subseteq s6'[j] /\ (j # i => s6'[j] = s6[j])
      /\ s6'[i] = s6[i] \cup {status} /\ DOMAIN s6' = DOMAIN s6
  BY <1>1, <1>2
<1> HIDE DEF new
<1>7. \A j \in DOMAIN s1 : s1[j].status \in s6[j]
  BY DEF MaterialInv
<1> QED
  BY <1>3, <1>5, <1>6, <1>7

LEMMA MaterialNext == MaterialInv /\ [Recordings!Next]_Recordings!materialVars => MaterialInv'
<1> SUFFICES ASSUME MaterialInv, [Recordings!Next]_Recordings!materialVars PROVE MaterialInv'
  OBVIOUS
<1>0. /\ s1 \in Seq(Handed) /\ Len(s1) <= MaxMaterials /\ Len(s1) \in Nat /\ MaxMaterials \in Nat
      /\ DOMAIN s1 = 1 .. Len(s1) /\ DOMAIN s6 = 1 .. MaxMaterials
      /\ s3 \in Seq(Grants) /\ s4 \in Nat /\ DOMAIN call = Procs
  BY CommunityAssumption DEF MaterialInv
<1>00. /\ \A i \in DOMAIN s1 : s1[i] \in Handed
       /\ \A n \in DOMAIN s3 : s3[n].key = s3[n].at
       /\ \A i \in DOMAIN s1 : s1[i].status \in s6[i]
       /\ \A p \in Procs : RulingOf(p)
       /\ \A i \in DOMAIN s1 : AcceptedIn(i) => Settled(i)
       /\ \A t \in s5 : t.id \in DOMAIN s1 /\ AcceptedIn(t.id) /\ s1[t.id].uid = t.uid
  <2>1. \A i \in DOMAIN s1 : s1[i] \in Handed
    BY <1>0
  <2> QED
    BY <2>1 DEF MaterialInv
<1> USE DEF Recordings!Goto, Recordings!Return, Recordings!Called, Recordings!Find,
            Recordings!FindByID, Recordings!Accepted, Recordings!Rejected, Recordings!Initial,
            Recordings!Key
\* What stays of the calls and of what they know.
<1>01. ASSUME Stays, NEW p \in Procs, RulingOf(p), call'[p] = call[p] PROVE RulingOf(p)'
  BY <1>01 DEF Stays, RulingOf, AcceptedIn, Rewarding
<1>02. ASSUME Stays, NEW i \in DOMAIN s1, Settled(i),
              \A p \in Procs : call[p] = Rewarding(i) =>
                  \/ call'[p] = Rewarding(i)
                  \/ i \in s7'
                  \/ \E n \in DOMAIN s3' : s3'[n].bizId = i /\ s3'[n].uid = s1'[i].uid
       PROVE  Settled(i)'
  BY <1>02 DEF Stays, Settled, Rewarding
<1>03. ASSUME Stays, NEW t \in s5
       PROVE  t.id \in DOMAIN s1' /\ AcceptedIn(t.id)' /\ s1'[t.id].uid = t.uid
  BY <1>00, <1>03 DEF Stays, AcceptedIn
<1>1. ASSUME Recordings!Tick PROVE MaterialInv'
  <2>1. UNCHANGED <<s1, call, s3, s5, s6, s7>> /\ s4' \in Nat
    BY <1>0, <1>1 DEF Recordings!Tick
  <2> QED
    BY <2>1 DEF MaterialInv, RulingOf, AcceptedIn, Settled
<1>2. ASSUME Recordings!Save PROVE MaterialInv'
  <2>1. PICK uid \in 1 .. 2 :
            /\ s1' = Append(s1, [uid |-> uid, status |-> "INIT"]) /\ Len(s1) < MaxMaterials
            /\ s6' = [s6 EXCEPT ![Len(s1')] = {"INIT"}]
            /\ UNCHANGED <<call, s3, s4, s5, s7>>
    BY <1>2 DEF Recordings!Save, Recordings!toEntity
  <2> DEFINE row == [uid |-> uid, status |-> "INIT"]
  <2>2. row \in Handed /\ row.status = "INIT"
    BY DEF Handed
  <2>3. /\ s1' \in Seq(Handed) /\ Len(s1') = Len(s1) + 1 /\ Len(s1') <= MaxMaterials
        /\ DOMAIN s1' = 1 .. Len(s1) + 1 /\ s1'[Len(s1) + 1] = row
        /\ \A i \in DOMAIN s1 : i \in DOMAIN s1' /\ s1'[i] = s1[i]
    <3> HIDE DEF row
    <3>1. s1' = Append(s1, row)
      BY <2>1 DEF row
    <3> QED
      BY <1>0, <2>1, <2>2, <3>1
  <2>4. /\ DOMAIN s6' = 1 .. MaxMaterials /\ s6'[Len(s1) + 1] = {"INIT"}
        /\ \A i \in DOMAIN s1 : s6'[i] = s6[i]
    BY <1>0, <2>1, <2>3
  <2>5. DOMAIN s1' = DOMAIN s1 \cup {Len(s1) + 1}
    BY <1>0, <2>3
  <2> HIDE DEF row
  <2>6. Stays
    BY <2>1, <2>3, <2>4 DEF Stays
  <2>7. \A i \in DOMAIN s1' : s1'[i].status \in s6'[i]
    BY <1>00, <2>2, <2>3, <2>4, <2>5
  <2>8. \A p \in Procs : RulingOf(p)'
    BY <1>00, <1>01, <2>1, <2>6
  <2>9. \A i \in DOMAIN s1' : AcceptedIn(i)' => Settled(i)'
    <3>1. "ACCEPTED" \notin s6'[Len(s1) + 1]
      BY <2>4
    <3>2. \A i \in DOMAIN s1 : AcceptedIn(i)' => Settled(i)'
      BY <1>00, <1>02, <2>1, <2>4, <2>6 DEF AcceptedIn
    <3> QED
      BY <2>5, <3>1, <3>2 DEF AcceptedIn
  <2> QED
    BY <1>0, <1>00, <1>03, <2>1, <2>3, <2>4, <2>6, <2>7, <2>8, <2>9 DEF MaterialInv
<1>3. ASSUME NEW p \in Procs, Recordings!Accept(p) PROVE MaterialInv'
  <2>1. PICK i \in DOMAIN s1 : Recordings!Stored(i, "ACCEPTED") /\ call' = [call EXCEPT ![p] = Rewarding(i)]
    BY <1>3 DEF Recordings!Accept, Rewarding
  <2>2. UNCHANGED <<s3, s4, s5, s7>> /\ call[p] = Recordings!Idle
    BY <1>3 DEF Recordings!Accept
  <2>3. /\ s1' \in Seq(Handed) /\ Len(s1') = Len(s1) /\ DOMAIN s1' = DOMAIN s1
        /\ \A j \in DOMAIN s1 : s1'[j].uid = s1[j].uid /\ s6[j] \subseteq s6'[j]
        /\ \A j \in DOMAIN s1 : j # i => s6'[j] = s6[j]
        /\ \A j \in DOMAIN s1 : s1'[j].status \in s6'[j]
        /\ DOMAIN s6' = DOMAIN s6 /\ "ACCEPTED" \in s6'[i]
    BY <2>1, DecisionKeeps
  <2>4. Stays
    BY <2>2, <2>3 DEF Stays
  <2>5. /\ DOMAIN call' = Procs /\ call'[p] = Rewarding(i)
        /\ \A q \in Procs : q # p => call'[q] = call[q]
    BY <1>0, <2>1
  <2>6. \A q \in Procs : RulingOf(q)'
    <3>1. RulingOf(p)'
      BY <2>3, <2>5 DEF RulingOf, AcceptedIn
    <3> QED
      BY <1>00, <1>01, <2>4, <2>5, <3>1
  <2>7. \A j \in DOMAIN s1' : AcceptedIn(j)' => Settled(j)'
    <3>1. Settled(i)'
      BY <2>5 DEF Settled
    <3>2. call[p] # Rewarding(i) /\ \A j : call[p] # Rewarding(j)
      BY <2>2 DEF Recordings!Idle, Rewarding
    <3>3. ASSUME NEW j \in DOMAIN s1, j # i, AcceptedIn(j)' PROVE Settled(j)'
      BY <1>00, <1>02, <2>3, <2>4, <2>5, <3>2, <3>3 DEF AcceptedIn
    <3> QED
      BY <2>3, <3>1, <3>3
  <2> QED
    BY <1>0, <1>00, <1>03, <2>2, <2>3, <2>4, <2>5, <2>6, <2>7 DEF MaterialInv
<1>4. ASSUME NEW p \in Procs, Recordings!Reward(p) PROVE MaterialInv'
  <2>1. PICK i \in DOMAIN s1 : AcceptedIn(i) /\ call[p] = Rewarding(i)
    <3>1. RulingOf(p) /\ call[p].op = "accepted"
      BY <1>00, <1>4 DEF Recordings!Reward
    <3>2. /\ Recordings!Idle.op = "idle"
          /\ \A i, u : [op |-> "send", id |-> i, uid |-> u].op = "send"
      BY DEF Recordings!Idle
    <3> QED
      BY <3>1, <3>2 DEF RulingOf
  <2>2. call[p].id = i
    BY <2>1 DEF Rewarding
  <2> DEFINE evt == [key |-> s4, uid |-> s1[i].uid, days |-> 30, bizId |-> i, at |-> s4]
  <2>3. /\ UNCHANGED <<s1, s4, s5, s6>> /\ call' = [call EXCEPT ![p] = Recordings!Idle]
        /\ \/ s3' = Append(s3, evt) /\ UNCHANGED s7
           \/ s7' = s7 \cup {i} /\ UNCHANGED s3
    BY <1>4, <2>2 DEF Recordings!Reward
  <2>4. evt \in Grants /\ evt.bizId = i /\ evt.uid = s1[i].uid /\ evt.key = evt.at
    BY <1>0, <1>00 DEF Grants, Handed
  <2> HIDE DEF evt
  <2>5. /\ s3' \in Seq(Grants) /\ DOMAIN s3 \subseteq DOMAIN s3'
        /\ \A n \in DOMAIN s3 : s3'[n] = s3[n]
        /\ \A n \in DOMAIN s3' : n \in DOMAIN s3 \/ s3'[n] = evt
        /\ i \in s7' \/ \E n \in DOMAIN s3' : s3'[n] = evt
    <3>1. CASE s3' = Append(s3, evt)
      <4>1. Len(s3) \in Nat /\ DOMAIN s3 = 1 .. Len(s3)
        BY <1>0
      <4>2. /\ s3' \in Seq(Grants) /\ DOMAIN s3' = 1 .. Len(s3) + 1 /\ s3'[Len(s3) + 1] = evt
            /\ \A n \in 1 .. Len(s3) : s3'[n] = s3[n]
        BY <1>0, <2>4, <3>1
      <4> QED
        BY <4>1, <4>2
    <3> QED
      BY <1>0, <2>3, <3>1
  <2>6. Stays
    BY <2>3, <2>5 DEF Stays
  <2>7. DOMAIN call' = Procs /\ call'[p] = Recordings!Idle /\ \A q \in Procs : q # p => call'[q] = call[q]
    BY <1>0, <2>3
  <2>8. \A q \in Procs : RulingOf(q)'
    <3>1. RulingOf(p)'
      BY <2>7 DEF RulingOf
    <3> QED
      BY <1>00, <1>01, <2>6, <2>7, <3>1
  <2>9. \A n \in DOMAIN s3' : s3'[n].key = s3'[n].at
    BY <1>00, <2>4, <2>5
  <2>10. \A j \in DOMAIN s1' : AcceptedIn(j)' => Settled(j)'
    <3>1. Settled(i)'
      BY <2>3, <2>4, <2>5 DEF Settled
    <3>2. \A j : j # i => call[p] # Rewarding(j)
      BY <2>1 DEF Rewarding
    <3>3. ASSUME NEW j \in DOMAIN s1, j # i, AcceptedIn(j)' PROVE Settled(j)'
      <4>1. AcceptedIn(j)
        BY <2>3, <3>3 DEF AcceptedIn
      <4> QED
        BY <1>00, <1>02, <2>6, <2>7, <3>2, <3>3, <4>1
    <3> QED
      BY <2>3, <3>1, <3>3
  <2> QED
    BY <1>0, <1>00, <1>03, <2>3, <2>5, <2>6, <2>7, <2>8, <2>9, <2>10 DEF MaterialInv
<1>5. ASSUME NEW p \in Procs, Recordings!Reject(p) PROVE MaterialInv'
  <2>1. PICK i \in DOMAIN s1 : Recordings!Stored(i, "REJECTED")
    BY <1>5 DEF Recordings!Reject
  <2>2. UNCHANGED <<call, s3, s4, s5, s7>>
    BY <1>5 DEF Recordings!Reject
  <2>3. /\ s1' \in Seq(Handed) /\ Len(s1') = Len(s1) /\ DOMAIN s1' = DOMAIN s1
        /\ \A j \in DOMAIN s1 : s1'[j].uid = s1[j].uid /\ s6[j] \subseteq s6'[j]
        /\ \A j \in DOMAIN s1 : s1'[j].status \in s6'[j]
        /\ DOMAIN s6' = DOMAIN s6
    BY <2>1, DecisionKeeps
  <2>4. \A j \in DOMAIN s1 : AcceptedIn(j)' => AcceptedIn(j)
    <3>1. \A j \in DOMAIN s1 : s6'[j] = s6[j] \/ s6'[j] = s6[j] \cup {"REJECTED"}
      BY <1>0, <2>1 DEF Recordings!Stored
    <3> QED
      BY <3>1 DEF AcceptedIn
  <2>5. Stays
    BY <2>2, <2>3 DEF Stays
  <2>6. \A q \in Procs : RulingOf(q)'
    BY <1>00, <1>01, <2>2, <2>5
  <2>7. \A j \in DOMAIN s1' : AcceptedIn(j)' => Settled(j)'
    BY <1>00, <1>02, <2>2, <2>3, <2>4, <2>5
  <2> QED
    BY <1>0, <1>00, <1>03, <2>2, <2>3, <2>5, <2>6, <2>7 DEF MaterialInv
<1>6. ASSUME NEW p \in Procs, Recordings!Notify(p) PROVE MaterialInv'
  <2>1. PICK i \in DOMAIN s1 :
            IF s1[i].status = "ACCEPTED"
            THEN call' = [call EXCEPT ![p] = [op |-> "send", id |-> i, uid |-> s1[i].uid]]
            ELSE call' = [call EXCEPT ![p] = Recordings!Idle]
    BY <1>6 DEF Recordings!Notify, Recordings!IsAccepted
  <2>2. UNCHANGED <<s1, s3, s4, s5, s6, s7>> /\ call[p] = Recordings!Idle
    BY <1>6 DEF Recordings!Notify
  <2>3. Stays
    BY <2>2 DEF Stays
  <2>4. DOMAIN call' = Procs /\ \A q \in Procs : q # p => call'[q] = call[q]
    BY <1>0, <2>1
  <2>5. \A q \in Procs : RulingOf(q)'
    <3>1. CASE s1[i].status = "ACCEPTED"
      <4>1. call'[p] = [op |-> "send", id |-> i, uid |-> s1'[i].uid] /\ AcceptedIn(i)'
        BY <1>0, <1>00, <2>1, <2>2, <3>1 DEF AcceptedIn
      <4>2. RulingOf(p)'
        BY <2>2, <4>1 DEF RulingOf
      <4> QED
        BY <1>00, <1>01, <2>3, <2>4, <4>2
    <3>2. CASE s1[i].status # "ACCEPTED"
      <4>1. RulingOf(p)'
        BY <1>0, <2>1, <3>2 DEF RulingOf
      <4> QED
        BY <1>00, <1>01, <2>3, <2>4, <4>1
    <3> QED
      BY <3>1, <3>2
  <2>6. \A j \in DOMAIN s1' : AcceptedIn(j)' => Settled(j)'
    <3>1. \A j : call[p] # Rewarding(j)
      BY <2>2 DEF Recordings!Idle, Rewarding
    <3> QED
      BY <1>00, <1>02, <2>2, <2>3, <2>4, <3>1 DEF AcceptedIn
  <2> QED
    BY <1>0, <1>00, <1>03, <2>2, <2>3, <2>4, <2>5, <2>6 DEF MaterialInv
<1>7. ASSUME NEW p \in Procs, Recordings!Send(p) PROVE MaterialInv'
  <2>1. PICK i \in DOMAIN s1 : AcceptedIn(i) /\ call[p] = [op |-> "send", id |-> i, uid |-> s1[i].uid]
    <3>1. RulingOf(p) /\ call[p].op = "send"
      BY <1>00, <1>7 DEF Recordings!Send
    <3>2. Recordings!Idle.op = "idle" /\ \A i : Rewarding(i).op = "accepted"
      BY DEF Recordings!Idle, Rewarding
    <3> QED
      BY <3>1, <3>2 DEF RulingOf
  <2>2. /\ UNCHANGED <<s1, s3, s4, s6, s7>> /\ call' = [call EXCEPT ![p] = Recordings!Idle]
        /\ s5' = s5 \/ s5' = s5 \cup {[uid |-> s1[i].uid, id |-> i]}
    BY <1>7, <2>1 DEF Recordings!Send
  <2>3. Stays
    BY <2>2 DEF Stays
  <2>4. DOMAIN call' = Procs /\ call'[p] = Recordings!Idle /\ \A q \in Procs : q # p => call'[q] = call[q]
    BY <1>0, <2>2
  <2>5. \A q \in Procs : RulingOf(q)'
    <3>1. RulingOf(p)'
      BY <2>4 DEF RulingOf
    <3> QED
      BY <1>00, <1>01, <2>3, <2>4, <3>1
  <2>6. \A j \in DOMAIN s1' : AcceptedIn(j)' => Settled(j)'
    <3>1. \A j : call[p] # Rewarding(j)
      BY <2>1 DEF Rewarding
    <3> QED
      BY <1>00, <1>02, <2>2, <2>3, <2>4, <3>1 DEF AcceptedIn
  <2>7. \A t \in s5' : t.id \in DOMAIN s1' /\ AcceptedIn(t.id)' /\ s1'[t.id].uid = t.uid
    BY <1>00, <2>1, <2>2 DEF AcceptedIn
  <2> QED
    BY <1>0, <1>00, <2>2, <2>4, <2>5, <2>6, <2>7 DEF MaterialInv
<1>8. CASE UNCHANGED Recordings!materialVars
  BY <1>8 DEF Recordings!materialVars, MaterialInv, RulingOf, AcceptedIn, Settled
<1> QED
  BY <1>1, <1>2, <1>3, <1>4, <1>5, <1>6, <1>7, <1>8 DEF Recordings!Next

LEMMA MaterialInit == Recordings!Init => MaterialInv
BY CommunityAssumption DEF Recordings!Init, MaterialInv, RulingOf

\* An event is the first of its millisecond, or another is.
LEMMA MaterialIsRight == MaterialInv => Recordings!AcceptedAreRewarded /\ Recordings!ToldWereAccepted
<1> SUFFICES ASSUME MaterialInv PROVE Recordings!AcceptedAreRewarded /\ Recordings!ToldWereAccepted
  OBVIOUS
<1>1. \A n \in DOMAIN s3 : Recordings!Granted(n) \/ Recordings!Crowded(n)
  <2>1. s3 \in Seq(Grants) /\ \A n \in DOMAIN s3 : s3[n].key = s3[n].at
    BY DEF MaterialInv
  <2>2. \A n \in DOMAIN s3 : n \in Nat /\ \A o \in 1 .. n - 1 : o \in DOMAIN s3
    BY <2>1
  <2> QED
    BY <2>1, <2>2 DEF Recordings!Granted, Recordings!Crowded
<1> QED
  BY <1>1 DEF MaterialInv, AcceptedIn, Settled, Rewarding, Recordings!Accepted,
              Recordings!AcceptedAreRewarded, Recordings!ToldWereAccepted

-----------------------------------------------------------------------------
(* A behaviour plays one scene. *)

LEMMA OneScene == [Next]_vars => scene' = scene
BY DEF Next, PeopleNext, vars, besideStream

LEMMA StreamSteps ==
    ASSUME scene = "stream", [Next]_vars
    PROVE  [Streamed!Next]_Streamed!streamVars
BY DEF Next, PeopleNext, vars, streamedOnly, Streamed!streamVars

LEMMA AccessSteps ==
    ASSUME scene = "access", [Next]_vars
    PROVE  [Doors!Next]_Doors!accessVars
BY DEF Next, PeopleNext, vars, slots, callsOnly, Doors!accessVars

LEMMA LLMSteps ==
    ASSUME scene = "llm", [Next]_vars
    PROVE  [Paid!Next]_Paid!llmvars
BY DEF Next, PeopleNext, vars, slots, paidOnly, Paid!llmvars, Paid!configVars

LEMMA MarkSteps ==
    ASSUME scene \in {"interactive", "collection"}, [Next]_vars
    PROVE  [Marks!Next]_Marks!ivars
BY DEF Next, PeopleNext, vars, marksOnly, callsOnly, Marks!ivars, Marks!ofPages

LEMMA AnalysisSteps ==
    ASSUME scene = "analysis", [Next]_vars
    PROVE  [Analyses!Next]_Analyses!analysisVars
BY DEF Next, PeopleNext, vars, slots, Analyses!analysisVars

LEMMA FeedbackSteps ==
    ASSUME scene = "feedback", [Next]_vars
    PROVE  [Opinions!Next]_Opinions!feedbackVars
BY DEF Next, PeopleNext, vars, slots, callsOnly, Opinions!feedbackVars

LEMMA MaterialSteps ==
    ASSUME scene = "material", [Next]_vars
    PROVE  [Recordings!Next]_Recordings!materialVars
BY DEF Next, PeopleNext, vars, slots, callsOnly, Recordings!materialVars

\* A behaviour begins as the module of its scene does.
LEMMA SceneBegins ==
    ASSUME Init
    PROVE  /\ scene = "stream" => Streamed!Init
           /\ scene = "access" => Doors!Init
           /\ scene = "llm" => Paid!Init
           /\ scene \in {"interactive", "collection"} => Marks!Init
           /\ scene = "analysis" => Analyses!Init
           /\ scene = "feedback" => Opinions!Init
           /\ scene = "material" => Recordings!Init
BY DEF Init, PeopleInit

-----------------------------------------------------------------------------
(***************************************************************************)
(* The properties of the scenes.                                           *)
(***************************************************************************)

\* Whoever is shown the end of a streamed answer has seen all of it, and of an
\* error they are told (Stream!EndShowsAll and ErrorsAreTold).
THEOREM StreamsAreWhole == Spec => []EndShowsAll
<1> DEFINE SceneInv == scene = "stream" => StreamInv
<1>1. Init => SceneInv
  BY SceneBegins, StreamInit
<1>2. SceneInv /\ [Next]_vars => SceneInv'
  BY OneScene, StreamSteps, StreamNext
<1>3. SceneInv => EndShowsAll
  BY StreamIsRight DEF EndShowsAll
<1> QED
  BY <1>1, <1>2, <1>3, PTL DEF Spec

\* A request reads what its account is entitled to at a moment of it, and is
\* not refused what it was entitled to all along (Access!LetInRightly and
\* NotLockedOut).
THEOREM VisitorsReadTheirs == Spec => []DoorsAreRight
<1> DEFINE SceneInv == scene = "access" => AccessInv
<1>1. Init => SceneInv
  BY SceneBegins, AccessInit
<1>2. SceneInv /\ [Next]_vars => SceneInv'
  BY OneScene, AccessSteps, AccessNext
<1>3. SceneInv => DoorsAreRight
  BY AccessIsRight DEF DoorsAreRight
<1> QED
  BY <1>1, <1>2, <1>3, PTL DEF Spec

\* Nobody gets an answer of a model unpaid or pays for none, an analysis tells
\* what it cost, and who gave feedback or a recording that was accepted gets
\* their event, unless it was lost (LLM!AnswersArePaid, PricesAreLast,
\* PaymentsAreAnswered and RowsTellTheLedger, Analysis!AmountIsTold,
\* Feedback!RewardsAreDue, Material!AcceptedAreRewarded and ToldWereAccepted).
THEOREM CallsArePaid == Spec => []AnswersArePaid
<1> DEFINE SceneInv == /\ scene = "llm" => PaidInv
                       /\ scene = "analysis" => AnalysisInv
                       /\ scene = "feedback" => OpinionsInv
                       /\ scene = "material" => MaterialInv
<1>1. Init => SceneInv
  BY SceneBegins, PaidInit, AnalysisInit, OpinionsInit, MaterialInit
<1>2. SceneInv /\ [Next]_vars => SceneInv'
  <2> SUFFICES ASSUME SceneInv, [Next]_vars PROVE SceneInv'
    OBVIOUS
  <2>1. scene' = scene
    BY OneScene
  <2>2. scene = "llm" => PaidInv'
    BY LLMSteps, PaidNext
  <2>3. scene = "analysis" => AnalysisInv'
    BY AnalysisSteps, AnalysisNext
  <2>4. scene = "feedback" => OpinionsInv'
    BY FeedbackSteps, OpinionsNext
  <2>5. scene = "material" => MaterialInv'
    BY MaterialSteps, MaterialNext
  <2> QED
    BY <2>1, <2>2, <2>3, <2>4, <2>5
<1>3. SceneInv => AnswersArePaid
  BY PaidIsRight, AnalysisIsRight, OpinionsAreRight, MaterialIsRight
    DEF AnswersArePaid, PeoplePaid
<1> QED
  BY <1>1, <1>2, <1>3, PTL DEF Spec

\* The number of likes is the number of users who like, collections are counted
\* but for deletions that took what they had not read, the total beside a
\* collection is what its owner can page through, and a page shows every record
\* its item (Interactive!LikesAreCounted, CollectsAreCounted, TotalIsListed and
\* PagesAreWhole).
THEOREM RowsAreCounted == Spec => []CountsEqualRows
<1> DEFINE SceneInv == scene \in {"interactive", "collection"} => MarksInv
<1>1. Init => SceneInv
  BY SceneBegins, MarksInit
<1>2. SceneInv /\ [Next]_vars => SceneInv'
  BY OneScene, MarkSteps, MarksNext
<1>3. SceneInv => CountsEqualRows
  BY MarksAreRight DEF CountsEqualRows
<1> QED
  BY <1>1, <1>2, <1>3, PTL DEF Spec
=============================================================================
