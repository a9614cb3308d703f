------------------------------- MODULE Access --------------------------------
(***************************************************************************)
(* Who may read what.  Members read the questions of the interview bank    *)
(* and the cases whole, and reach the routes behind CheckMembership; a     *)
(* permission lets its owner read a project, the questions of it, and      *)
(* reach the routes behind CheckPermission.  To ask the tables seldom, the *)
(* end of the membership travels in the token of the user, and the ids of  *)
(* the permissions lie in the session; both are written at login and by    *)
(* every check that had to ask the tables.                                 *)
(*                                                                         *)
(* One user with several devices, each with its session and its tokens.    *)
(* The session library is external: a token names its session, which may   *)
(* have been destroyed since.  Those who may not read a text whole are     *)
(* shown its first paragraphs.  Left out: what the handlers read beside.   *)
(***************************************************************************)
EXTENDS Integers, Sequences, FiniteSets, SequencesExt

CONSTANTS
    Procs,      \* requests being served
    Resources,  \* ids that permissions are for
    MaxNow, MaxCalls, MaxFaults   \* bounds: days, requests and grants, failing calls

VARIABLES
    now,        \* the clock, in days
    endAt,      \* the row of the membership; 0 when there is none
    perms,      \* rows of personal_permissions
    tokens,     \* every token: its session and its memberDDL
    sess,       \* the permissions in each session, or NoSession
    call, calls, faults,
    may, must   \* history: the rows entitle the user to the request at a
                \* moment of it, at every moment of it

accessVars == <<now, endAt, perms, tokens, sess, call, calls, faults, may, must>>

NoSession == {0}

\* The routes: those behind a middleware answer 403, the others show less.
OfMembers == {"member", "baguwen", "case"}

Idle == [op |-> "idle", pc |-> "idle", id |-> 0, ssid |-> 0, ddl |-> 0, now |-> 0,
         list |-> {}, failed |-> FALSE]

Init ==
    /\ now = 1 /\ endAt = 0 /\ perms = {}
    /\ tokens = {} /\ sess = <<>>
    /\ call = [p \in Procs |-> Idle]
    /\ calls = 0 /\ faults = 0
    /\ may = [p \in Procs |-> FALSE] /\ must = [p \in Procs |-> FALSE]

-----------------------------------------------------------------------------
Called == calls < MaxCalls /\ calls' = calls + 1
Fault == faults < MaxFaults /\ faults' = faults + 1

Goto(p, pc) == call' = [call EXCEPT ![p].pc = pc]
Let(p, in) == Goto(p, IF in THEN "in" ELSE "out")
Failed(p) == Fault /\ call' = [call EXCEPT ![p].pc = "out", ![p].failed = TRUE]

Tables == <<now, endAt, perms>>

-----------------------------------------------------------------------------
(* What other modules change: the clock, an activation, a grant. *)

Tick ==
    /\ now < MaxNow
    /\ now' = now + 1
    /\ UNCHANGED <<endAt, perms, tokens, sess, call, calls, faults>>

Extend ==
    /\ Called
    /\ endAt' = (IF endAt > now THEN endAt ELSE now) + 1
    /\ UNCHANGED <<now, perms, tokens, sess, call, faults>>

CreatePersonalPermission(id) ==
    /\ id \notin perms
    /\ Called
    /\ perms' = perms \cup {id}
    /\ UNCHANGED <<now, endAt, tokens, sess, call, faults>>

-----------------------------------------------------------------------------
(* Login and logout. *)

Login(p) ==
    /\ call[p].pc = "idle"
    /\ Called
    /\ call' = [call EXCEPT ![p] = [Idle EXCEPT !.op = "login", !.pc = "ddl"]]
    /\ UNCHANGED <<Tables, tokens, sess, faults>>

\* An error is the end of no membership.
getMemberDDL(p) ==
    /\ call[p].pc = "ddl"
    /\ \/ call' = [call EXCEPT ![p].ddl = endAt, ![p].pc = "perms"] /\ UNCHANGED faults
       \/ Fault /\ call' = [call EXCEPT ![p].pc = "perms"]
    /\ UNCHANGED <<Tables, tokens, sess, calls>>

FindPersonalPermissions(p) ==
    /\ call[p].pc = "perms"
    /\ \/ call' = [call EXCEPT ![p].list = perms, ![p].pc = "build"] /\ UNCHANGED faults
       \/ Failed(p)
    /\ UNCHANGED <<Tables, tokens, sess, calls>>

\* A new session with a new token.
setupSession(p) ==
    /\ call[p].pc = "build"
    /\ \/ /\ tokens' = tokens \cup {[ssid |-> Len(sess) + 1, ddl |-> call[p].ddl]}
          /\ sess' = Append(sess, call[p].list)
          /\ Goto(p, "in")
          /\ UNCHANGED faults
       \/ Failed(p) /\ UNCHANGED <<tokens, sess>>
    /\ UNCHANGED <<Tables, calls>>

\* The tokens of the session remain.
Logout ==
    /\ Called
    /\ \E s \in DOMAIN sess : sess[s] # NoSession /\ sess' = [sess EXCEPT ![s] = NoSession]
    /\ UNCHANGED <<Tables, tokens, call, faults>>

-----------------------------------------------------------------------------
(* A request with one of the tokens. *)

Request(p, op, id, token, pc) ==
    /\ call[p].pc = "idle"
    /\ Called
    /\ call' = [call EXCEPT ![p] = [op |-> op, pc |-> pc, id |-> id, ssid |-> token.ssid,
                                    ddl |-> token.ddl, now |-> now, list |-> {},
                                    failed |-> FALSE]]
    /\ UNCHANGED <<Tables, tokens, sess, faults>>

CheckMembership(p, token) == Request(p, "member", 0, token, "token")
CheckPermission(p, token) == \E id \in Resources : Request(p, "resource", id, token, "list")

\* A question of the bank, or of a project.
QuestionDetail(p, token) ==
    \/ Request(p, "baguwen", 0, token, "token")
    \/ \E id \in Resources : Request(p, "question", id, token, "has")

CaseDetail(p, token) == Request(p, "case", 0, token, "token")
ProjectDetail(p, token) == \E id \in Resources : Request(p, "project", id, token, "has")

\* Mutant: whoever was a member once.
AnyDDL(p) == call[p].ddl > 0

\* Not expired, as far as the token knows.
Fresh(p) == call[p].ddl > (IF call[p].op = "member" THEN call[p].now ELSE now)

\* The session provider may refuse the token: who asks is not logged in.
CheckToken(p) ==
    /\ call[p].pc = "token"
    /\ \/ Goto(p, IF Fresh(p) THEN "in" ELSE "info") /\ UNCHANGED faults
       \/ Failed(p)
    /\ UNCHANGED <<Tables, tokens, sess, calls>>

GetMembershipInfo(p) ==
    /\ call[p].pc = "info"
    /\ \/ call' = [call EXCEPT ![p].ddl = endAt, ![p].pc = "compare"] /\ UNCHANGED faults
       \/ Failed(p)
    /\ UNCHANGED <<Tables, tokens, sess, calls>>

\* Mutant: the last moment is too late.
ExpiredEarly(p) ==
    call[p].ddl = 0 \/ call[p].ddl <= (IF call[p].op = "member" THEN call[p].now ELSE now)

\* The middleware compares with the time the request came, the others read
\* the clock again.
Expired(p) ==
    call[p].ddl = 0 \/ call[p].ddl < (IF call[p].op = "member" THEN call[p].now ELSE now)

Compare(p) ==
    /\ call[p].pc = "compare"
    /\ Goto(p, IF Expired(p) THEN "out" ELSE "claims")
    /\ UNCHANGED <<Tables, tokens, sess, calls, faults>>

\* A new token; without one the middleware turns the user away.
UpdateClaims(p) ==
    /\ call[p].pc = "claims"
    /\ \/ /\ tokens' = tokens \cup {[ssid |-> call[p].ssid, ddl |-> call[p].ddl]}
          /\ Goto(p, "in")
          /\ UNCHANGED faults
       \/ /\ Fault
          /\ IF call[p].op = "member"
             THEN call' = [call EXCEPT ![p].pc = "out", ![p].failed = TRUE]
             ELSE Goto(p, "in")
          /\ UNCHANGED tokens
    /\ UNCHANGED <<Tables, sess, calls>>

Mine(p) == sess[call[p].ssid]

\* The fast path of CheckPermission; what it read is kept for the slow one.
CheckList(p) ==
    /\ call[p].pc = "list"
    /\ \/ /\ Mine(p) # NoSession
          /\ call' = [call EXCEPT ![p].list = Mine(p),
                                  ![p].pc = IF call[p].id \in Mine(p) THEN "in" ELSE "has"]
          /\ UNCHANGED faults
       \/ Mine(p) = NoSession /\ Goto(p, "out") /\ UNCHANGED faults
       \/ Failed(p)
    /\ UNCHANGED <<Tables, tokens, sess, calls>>

Listed(p) == sess' = [sess EXCEPT ![call[p].ssid] = call[p].list \cup {call[p].id}]

\* Mutant: the id is put into the session before the table is asked.
ListedFirst(p) ==
    /\ call[p].pc = "has"
    /\ \/ /\ Let(p, call[p].id \in perms)
          /\ IF call[p].op = "resource" THEN Listed(p) ELSE UNCHANGED sess
          /\ UNCHANGED faults
       \/ Failed(p) /\ UNCHANGED sess
    /\ UNCHANGED <<Tables, tokens, calls>>

HasPermission(p) ==
    /\ call[p].pc = "has"
    /\ \/ /\ IF call[p].op = "resource" /\ call[p].id \in perms
             THEN Goto(p, "set") ELSE Let(p, call[p].id \in perms)
          /\ UNCHANGED faults
       \/ Failed(p)
    /\ UNCHANGED <<Tables, tokens, sess, calls>>

\* The list that was read, with the id: what another request has put into the
\* session meanwhile is lost, and a session destroyed meanwhile is there again.
SetList(p) ==
    /\ call[p].pc = "set"
    /\ \/ Listed(p) /\ Goto(p, "in") /\ UNCHANGED faults
       \/ Failed(p) /\ UNCHANGED sess
    /\ UNCHANGED <<Tables, tokens, calls>>

Return(p) ==
    /\ call[p].pc \in {"in", "out"}
    /\ call' = [call EXCEPT ![p] = Idle]
    /\ UNCHANGED <<Tables, tokens, sess, calls, faults>>

Step(p) ==
    \/ Login(p) \/ getMemberDDL(p) \/ FindPersonalPermissions(p) \/ setupSession(p)
    \/ CheckToken(p) \/ GetMembershipInfo(p) \/ Compare(p) \/ UpdateClaims(p)
    \/ CheckList(p) \/ HasPermission(p) \/ SetList(p) \/ Return(p)
    \/ \E token \in tokens :
          \/ CheckMembership(p, token) \/ CheckPermission(p, token)
          \/ QuestionDetail(p, token) \/ CaseDetail(p, token) \/ ProjectDetail(p, token)

Others == Tick \/ Extend \/ (\E id \in Resources : CreatePersonalPermission(id)) \/ Logout

\* What the rows grant for a request; a logout ends it for the session.
Entitled(c) ==
    IF c.op \in OfMembers THEN endAt # 0 /\ endAt >= now
    ELSE c.id \in perms /\ (c.op = "resource" => sess[c.ssid] # NoSession)

Watch ==
    /\ may' = [p \in Procs |->
                call'[p].pc # "idle" /\ (may[p] \/ Entitled(call[p])')]
    /\ must' = [p \in Procs |->
                call'[p].pc # "idle" /\ (call[p].pc = "idle" \/ must[p]) /\ Entitled(call[p])']

Next == ((\E p \in Procs : Step(p)) \/ Others) /\ Watch

Spec == Init /\ [][Next]_accessVars

-----------------------------------------------------------------------------
(* Texts are cut short (internal/pkg/html_truncate): a text is a sequence of *)
(* paragraphs, of paragraphs of blanks, and of what is neither.              *)

Texts == SeqOf({"paragraph", "blank", "other"}, 6)

Paragraphs(content) == {i \in DOMAIN content : content[i] = "paragraph"}
ParagraphCount(content) == Cardinality(Paragraphs(content))

\* Up to the end of paragraph number, or all of it when there are fewer.
TruncateByParagraphs(content, number) ==
    IF ParagraphCount(content) < number THEN content
    ELSE SubSeq(content, 1, CHOOSE i \in Paragraphs(content) :
                Cardinality({j \in Paragraphs(content) : j <= i}) = number)

\* Mutant: as many paragraphs of every text.
TruncateAlike(content) == TruncateByParagraphs(content, 3)

Truncate(content) ==
    TruncateByParagraphs(content, CASE ParagraphCount(content) <= 3 -> 1
                                    [] ParagraphCount(content) = 4 -> 2
                                    [] OTHER -> 3)

-----------------------------------------------------------------------------
(* Properties. *)

TypeOK ==
    /\ endAt \in 0..(MaxNow + MaxCalls) /\ perms \subseteq Resources
    /\ \A s \in DOMAIN sess : sess[s] = NoSession \/ sess[s] \subseteq Resources
    /\ \A t \in tokens : t.ssid \in DOMAIN sess
    /\ \A p \in Procs : must[p] => may[p]

\* Whoever is let in, by a token, a session or the tables, was entitled to it
\* at a moment of the request; and neither tokens nor sessions promise more
\* than the tables (check_membership_builder.go:62, check_permission_builder.go:94,
\* question/internal/web/handler.go:160, cases/internal/web/handler.go:180).
LetInRightly ==
    /\ \A p \in Procs : call[p].op # "login" /\ call[p].pc = "in" => may[p]
    /\ \A t \in tokens : t.ddl <= endAt
    /\ \A s \in DOMAIN sess : sess[s] = NoSession \/ sess[s] \subseteq perms

\* Whoever was entitled all along is turned away by a failing call alone, or
\* when the membership is extended between its query and the comparison; the
\* session that forgot a permission and the old token cost a query, no more.
NotLockedOut ==
    \A p \in Procs :
        (/\ call[p].op # "login" /\ call[p].pc = "out" /\ ~call[p].failed
         /\ call[p].op \in OfMembers => call[p].ddl = endAt)
        => ~must[p]

\* Whoever may not read a text whole sees the beginning of it: at least one
\* paragraph if it has any, at most three, never the last of several, and
\* nothing behind them (html_truncate/truncate.go:18).  A text without
\* paragraphs is not cut.
PartsAreShort ==
    \A content \in Texts :
        LET part == Truncate(content)
            all == ParagraphCount(content)
        IN  /\ IsPrefix(part, content)
            /\ all > 0 => ParagraphCount(part) \in 1..3 /\ part[Len(part)] = "paragraph"
            /\ all > 1 => ParagraphCount(part) < all
=============================================================================
