----------------------------- MODULE MCCommunity -----------------------------
(***************************************************************************)
(* What users do beside reading, on small instances: what they keep of     *)
(* themselves and ask for (resumes and what a model says of them,          *)
(* interviews, feedback, recordings they hand in, what they buy, what a    *)
(* search finds, what they may read); and likes, collections, accounts,    *)
(* comments and calls of a language model, whole or streamed.              *)
(*                                                                         *)
(* They share no row, so a behaviour runs one of them.  The own variables  *)
(* of the modules of the first half are s1 to s10.                         *)
(***************************************************************************)
EXTENDS Integers, Sequences, FiniteSets, TLC

CONSTANTS
    Scenes,                              \* what is played
    Procs,                               \* goroutines, requests, windows, admins
    MaxFaults,                           \* failing calls of a behaviour
    WechatUsers, Mobiles, MaxLogins,     \* User
    Arrivals, AppHeaders, NoApp, IdSteps, MaxClock, MaxRequests,   \* Login
    Resources, MaxNow, MaxVisits,        \* Access
    Likers, MaxMarks, MaxFolders, MaxPages, Reader,   \* Interactive
    Runs, RunnerOf, BizOfRun, Balance, Prices, Tokens, MaxSaves, absent,   \* LLM
    Cap, MaxChunks,                      \* Stream
    Funds,                               \* Analysis
    MaxFeedback, MaxDecisions,           \* Feedback
    MaxMaterials, MaxMillis, MaxRulings, \* Material
    caseA, caseB                         \* Resume

\* Requests are finitely many, union ids are no phone numbers, no application
\* is that of a request without the header, the ids MySQL gives stay within the
\* node and step of a millisecond, and resources have ids.
ASSUME AccountAssumption ==
    /\ IsFiniteSet(Procs)
    /\ WechatUsers \cap Mobiles = {} /\ "none" \notin WechatUsers \cup Mobiles
    /\ MaxLogins \in Nat
    /\ NoApp \notin {0, 1}
    /\ IdSteps \in Nat \ {0} /\ MaxRequests \in Nat /\ MaxRequests <= 3 * IdSteps
    /\ 0 \notin Resources

\* Users are finitely many, and a call that holds no credits has no entry in
\* the ledger.
ASSUME CommunityAssumption ==
    /\ IsFiniteSet(Likers)
    /\ Prices \subseteq Nat
    /\ Tokens \subseteq Nat
    /\ Balance \in Nat
    /\ Funds \in Nat
    /\ MaxFeedback \in Nat
    /\ MaxMaterials \in Nat
    /\ absent \notin [uid : {RunnerOf[r] : r \in Runs}, change : Int,
                     status : {"Active", "Locked", "Inactive"}]

VARIABLES
    scene,
    call, calls, faults, shown,
    s1, s2, s3, s4, s5, s6, s7, s8, s9, s10,
    users, cached, registered, sessions, edited, overlapped, outdated,
    likes, collects, intr, folders, newFolder, decrs, live, page, pages, strays, exact,
    available, held, entry, pc, price, creditRow, recordRow, outcome, lost,
    recvPc, event, record, eventCh, closed, connected, ending, taken

Accounts == INSTANCE User WITH
    People <- WechatUsers, Phones <- Mobiles, MaxCalls <- MaxLogins

\* A request without X-APP, of the second application, of one nobody knows.
Logins == INSTANCE Login WITH
    People <- Arrivals, Phones <- Mobiles, Headers <- AppHeaders, Steps <- IdSteps,
    MaxNow <- MaxClock, MaxCalls <- MaxRequests,
    rows <- s1, now <- s2, node <- s3, states <- s4, asked <- s5, codes <- s6,
    received <- s7, answers <- s8

Doors == INSTANCE Access WITH
    MaxCalls <- MaxVisits,
    now <- s1, endAt <- s2, perms <- s3, tokens <- s4, sess <- s5, may <- s6, must <- s7

\* A case and a question of one id.  The first scene is about what is done to
\* one of them, the second about the pages of one user's collection.
Things == {<<"case", 1>>, <<"question", 1>>}
Marks == INSTANCE Interactive WITH
    Users <- Likers, Items <- Things, MaxCalls <- MaxMarks

\* Calls of one user, who cannot pay for all of them.
Paid == INSTANCE LLM WITH
    Calls <- Runs, CallerOf <- RunnerOf, BizOf <- BizOfRun, NoRow <- absent,
    configs <- s1, saves <- s2, last <- s3, config <- s4, told <- s5

Streamed == INSTANCE Stream

\* Two analyses at once; the credits of the user end during them.
Analyses == INSTANCE Analysis WITH
    Requests <- Procs, Credits <- Funds,
    balance <- s1, task <- s2, told <- s3, amount <- s4, reason <- s5, spent <- s6

Opinions == INSTANCE Feedback WITH
    Limit <- 1,
    table <- s1, credits <- s2, decisions <- s3, pager <- s4, adoptions <- s5,
    lost <- s6, moved <- s7, missed <- s8

Recordings == INSTANCE Material WITH
    MaxCalls <- MaxRulings,
    table <- s1, robot <- s2, events <- s3, millis <- s4, told <- s5,
    decided <- s6, gaveUp <- s7

\* One case is published, one is not.
Resumes == INSTANCE Resume WITH
    Cases <- {caseA, caseB}, Published <- {caseA}, MaxCalls <- 3, MaxRows <- 2,
    Ids <- {1, 2, 3}, Times <- {1, 2, 4}, HalfAYear <- 1,
    projects <- s1, contributions <- s2, refCases <- s3, difficulties <- s4,
    ids <- s5, late <- s6, kept <- s7, experiences <- s8

Interviews == INSTANCE Interview WITH
    Numbers <- {1, 2}, MaxJourneys <- 1, MaxCalls <- 3,
    journeys <- s1, rounds <- s2, everShared <- s3, unknown <- s4

\* Two of a SKU, more than there are, two SKUs; a preview is submitted twice.
Line(sku, quantity) == [sku |-> sku, quantity |-> quantity]
Shops == INSTANCE Shop WITH
    MaxSpus <- 2, MaxSkus <- 2, MaxSaves <- 3, MaxReads <- 2, Stock <- 2,
    Asked <- {<<Line(1, 2)>>, <<Line(1, 3)>>, <<Line(1, 1), Line(2, 1)>>},
    MaxBaskets <- 1, MaxOrders <- 2,
    spus <- s1, skus <- s2, serials <- s3, saves <- s4, reads <- s5, found <- s6, kept <- s7,
    baskets <- s8, orders <- s9, payments <- s10

\* Documents of several indexes share an id and words.
Document(id, source) == [id |-> id, source |-> source]
Basic == <<"answer", "basic", "content">>
Parts == {<<"go">>, <<"db">>, <<Basic, "tx">>, <<<<"status">>, "db">>, <<"a", "b", "c">>}
Searches == INSTANCE SearchQuery WITH
    Docs <- [question |-> {Document(1, <<"title">> :> {"go"} @@ <<"content">> :> {"db"} @@
                                       Basic :> {"db", "tx"}),
                           Document(2, <<"labels">> :> {"go"} @@ Basic :> {"go"})},
             case |-> {Document(1, <<"guidance">> :> {"db"} @@ <<"status">> :> {"db"} @@
                                   <<"content">> :> {"tx"})},
             questionSet |-> {},
             skill |-> {Document(2, <<"desc">> :> {"tx"} @@ <<"basic", "desc">> :> {"go"})}],
    Keywords <- {<<a>> : a \in Parts} \cup {<<a, b>> : a, b \in Parts},
    Limit <- 2,
    expr <- s1, phase <- s2, pending <- s3, res <- s4, liked <- s5, exams <- s6,
    failed <- s7, answer <- s8

-----------------------------------------------------------------------------
slots == <<s1, s2, s3, s4, s5, s6, s7, s8, s9, s10>>

From9 == s9 = 0 /\ s10 = 0
From8 == s8 = 0 /\ From9
From7 == s7 = 0 /\ From8
From5 == s5 = 0 /\ s6 = 0 /\ From7
From2 == s2 = 0 /\ s3 = 0 /\ s4 = 0 /\ From5
NoSlots == s1 = 0 /\ From2

NoCalls == call = 0 /\ calls = 0
NoFaults == faults = 0

PeopleInit ==
    \/ scene \in {"resume", "experience"} /\ Resumes!Init /\ NoFaults /\ From9
    \/ scene = "analysis" /\ Analyses!Init /\ NoCalls /\ From7
    \/ scene = "interview" /\ Interviews!Init /\ NoFaults /\ From5
    \/ scene = "feedback" /\ Opinions!Init /\ calls = 0 /\ From9
    \/ scene = "material" /\ Recordings!Init /\ From8
    \/ scene \in {"product", "order"} /\ Shops!Init /\ calls = 0
    \/ scene = "search" /\ Searches!Init /\ NoCalls /\ From9
    \/ scene = "access" /\ Doors!Init /\ From8
    \/ scene = "login" /\ Logins!Init /\ From9

PeopleNext ==
    \/ scene \in {"resume", "experience"} /\ Resumes!Next /\ UNCHANGED <<faults, s9, s10>>
    \/ scene = "analysis" /\ Analyses!Next /\ UNCHANGED <<call, calls, s7, s8, s9, s10>>
    \/ scene = "interview" /\ Interviews!Next /\ UNCHANGED <<faults, s5, s6, s7, s8, s9, s10>>
    \/ scene = "feedback" /\ Opinions!Next /\ UNCHANGED <<calls, s9, s10>>
    \/ scene = "material" /\ Recordings!Next /\ UNCHANGED <<s8, s9, s10>>
    \/ scene = "product" /\ Shops!Next /\ UNCHANGED calls
    \/ scene = "order" /\ Shops!OrderNext /\ UNCHANGED calls
    \/ scene = "order" /\ s4 + Len(s9) + faults < 3 /\ Shops!SaveProduct /\ UNCHANGED calls
    \/ scene = "search" /\ Searches!Next /\ UNCHANGED <<call, calls, s9, s10>>
    \/ scene = "access" /\ Doors!Next /\ UNCHANGED <<s8, s9, s10>>
    \/ scene = "login" /\ Logins!Next /\ UNCHANGED <<s9, s10>>

-----------------------------------------------------------------------------
PeopleTypes ==
    /\ scene \in {"resume", "experience"} => Resumes!TypeOK
    /\ scene = "analysis" => Analyses!TypeOK
    /\ scene = "interview" => Interviews!TypeOK
    /\ scene = "feedback" => Opinions!TypeOK
    /\ scene = "material" => Recordings!TypeOK
    /\ scene \in {"product", "order"} => Shops!TypeOK
    /\ scene = "search" => Searches!TypeOK
    /\ scene = "access" => Doors!TypeOK
    /\ scene = "login" => Logins!TypeOK

\* What an analysis costs is told, and what is accepted is rewarded
\* (Analysis!AmountIsTold, Feedback!RewardsAreDue,
\* Material!AcceptedAreRewarded and ToldWereAccepted).
PeoplePaid ==
    /\ scene = "analysis" => Analyses!AmountIsTold
    /\ scene = "feedback" => Opinions!RewardsAreDue
    /\ scene = "material" => Recordings!AcceptedAreRewarded /\ Recordings!ToldWereAccepted

-----------------------------------------------------------------------------
VARIABLES comments, newId, creating, deletes, reader, unread

Threads == INSTANCE Comment WITH
    Users <- {1, 2}, Subjects <- {"case"}, Limit <- 1, MaxComments <- 3, MaxDeletes <- 1

\* Three calls of one user, who can pay for one of them; an answer may be
\* free, or none of the administrators' business.
OneRunner == [r \in Runs |-> "user"]
Businesses == [r \in Runs |-> IF r = "r3" THEN "exam" ELSE "jd"]
-----------------------------------------------------------------------------
(* The variables of the scenes that are not played. *)

NoMarks ==
    /\ likes = 0 /\ collects = 0 /\ intr = 0 /\ folders = 0 /\ newFolder = 0
    /\ decrs = 0 /\ live = 0 /\ page = 0 /\ pages = 0 /\ strays = 0 /\ exact = 0

NoAccounts ==
    /\ users = 0 /\ cached = 0 /\ registered = 0 /\ sessions = 0
    /\ edited = 0 /\ overlapped = 0 /\ outdated = 0

NoThreads ==
    /\ comments = 0 /\ newId = 0 /\ creating = 0 /\ deletes = 0
    /\ reader = 0 /\ unread = 0

NoPaid ==
    /\ available = 0 /\ held = 0 /\ entry = 0 /\ pc = 0 /\ price = 0
    /\ creditRow = 0 /\ recordRow = 0 /\ outcome = 0 /\ lost = 0

NoStreamed ==
    /\ recvPc = "none" /\ event = 0 /\ record = 0 /\ eventCh = <<>> /\ closed = FALSE
    /\ connected = FALSE /\ ending = "none" /\ taken = 0

callsOnly == <<call, calls>>
marksOnly == <<likes, collects, intr, folders, newFolder, decrs, live, page, pages, strays, exact>>
accountsOnly == <<users, cached, registered, sessions, edited, overlapped, outdated>>
threadsOnly == <<comments, newId, creating, deletes, reader, unread>>
paidOnly == <<available, held, entry, pc, price, creditRow, recordRow, outcome, lost>>
streamedOnly == <<recvPc, event, record, eventCh, closed, connected, ending, taken>>

vars == <<callsOnly, faults, shown, marksOnly, accountsOnly, threadsOnly, paidOnly,
          streamedOnly, slots, scene>>

Init ==
    /\ scene \in Scenes
    /\ \/ /\ scene \in {"interactive", "collection"} /\ Marks!Init /\ shown = 0
          /\ NoAccounts /\ NoThreads /\ NoPaid /\ NoStreamed /\ NoSlots
       \/ /\ scene = "user" /\ Accounts!Init /\ shown = 0
          /\ NoMarks /\ NoThreads /\ NoPaid /\ NoStreamed /\ NoSlots
       \/ /\ scene = "comment" /\ Threads!Init
          /\ NoCalls /\ NoFaults /\ NoMarks /\ NoAccounts /\ NoPaid /\ NoStreamed /\ NoSlots
       \/ /\ scene = "llm" /\ Paid!Init /\ shown = 0 /\ s6 = 0 /\ From7
          /\ NoCalls /\ NoMarks /\ NoAccounts /\ NoThreads /\ NoStreamed
       \/ /\ scene = "stream" /\ Streamed!Init
          /\ NoCalls /\ NoFaults /\ NoMarks /\ NoAccounts /\ NoThreads /\ NoPaid /\ NoSlots
       \/ /\ PeopleInit /\ shown = 0
          /\ NoMarks /\ NoAccounts /\ NoThreads /\ NoPaid /\ NoStreamed

besideStream == <<callsOnly, faults, marksOnly, accountsOnly, threadsOnly, paidOnly, slots, scene>>

Next ==
    \/ /\ scene \in {"interactive", "collection"} /\ Marks!Next
       /\ UNCHANGED <<shown, accountsOnly, threadsOnly, paidOnly, streamedOnly, slots,
                    scene>>
    \/ /\ scene = "user" /\ Accounts!Next
       /\ UNCHANGED <<shown, marksOnly, threadsOnly, paidOnly, streamedOnly, slots,
                    scene>>
    \/ /\ scene = "comment" /\ Threads!Next
       /\ UNCHANGED <<callsOnly, faults, marksOnly, accountsOnly, paidOnly, streamedOnly, slots,
                    scene>>
    \/ /\ scene = "llm" /\ Paid!Next
       /\ UNCHANGED <<callsOnly, shown, marksOnly, accountsOnly, threadsOnly, streamedOnly,
                    s6, s7, s8, s9, s10, scene>>
    \/ scene = "stream" /\ Streamed!Next /\ UNCHANGED besideStream
    \/ /\ PeopleNext
       /\ UNCHANGED <<shown, marksOnly, accountsOnly, threadsOnly, paidOnly, streamedOnly, scene>>

\* What the scenes are played with.
Scope ==
    /\ scene = "interactive" =>
          /\ pages' = 0 /\ live' = live
          /\ intr'[<<"question", 1>>] = intr[<<"question", 1>>]
          /\ \A p \in Procs : <<"question", 1>> \notin {call'[p].key[i] : i \in DOMAIN call'[p].key}
    /\ scene = "collection" =>
          /\ calls' <= 3 /\ newFolder' <= 2
          /\ strays' = {}
          /\ \A i \in Things : intr'[i].view <= 0
          /\ \A p \in Procs : call'[p].op # "like"
          /\ \A p \in Procs : call[p].op = "idle" /\ call'[p].op = "delete" => call'[p].cid \in DOMAIN folders
          /\ \A p \in Procs : call'[p].key # <<>> => call'[p].key[1] = Reader
          /\ DOMAIN folders' \subseteq {c \in DOMAIN folders' : folders'[c] = Reader}
    /\ scene = "access" => calls' + faults' + s1' <= 6
    /\ scene = "login" => calls' + s2' + faults' <= 4
    /\ scene = "resume" => s8' = s8
    /\ scene = "experience" => s8' # s8
    /\ scene = "product" => \A p \in Procs : call'[p].op # "items"
    /\ scene = "order" => Len(s1') <= 1 /\ s4' + Len(s9') + faults' <= 3

\* Both goroutines of a streamed answer go on.
Spec ==
    /\ Init
    /\ [][Next]_vars
    /\ WF_vars(scene = "stream" /\ Streamed!recv /\ UNCHANGED besideStream)
    /\ WF_vars(scene = "stream" /\ Streamed!handler /\ UNCHANGED besideStream)

-----------------------------------------------------------------------------
\* The type invariants of the modules.
TypeOK ==
    /\ PeopleTypes
    /\ scene \in {"interactive", "collection"} => Marks!TypeOK
    /\ scene = "user" => Accounts!TypeOK
    /\ scene = "comment" => Threads!TypeOK
    /\ scene = "llm" => Paid!TypeOK
    /\ scene = "stream" => Streamed!TypeOK

\* Counts equal the rows they count, and totals and pages the rows they list
\* (Interactive!LikesAreCounted, CollectsAreCounted, TotalIsListed and
\* PagesAreWhole).
CountsEqualRows ==
    scene \in {"interactive", "collection"} =>
        /\ Marks!LikesAreCounted /\ Marks!CollectsAreCounted
        /\ Marks!TotalIsListed /\ Marks!PagesAreWhole

\* A person has one account from wherever they log in, its registration is
\* announced once (User!LoginsAgree and AnnouncedOnce), edits of a profile are
\* not undone, and the cache shows them (User!EditsStay and CacheShowsTheRow);
\* what proves a visitor is their own, and leads to one row of one application
\* (Login!AppsAreApart, RefusedAreThere and KeysAreTheirs).
AccountsAreSound ==
    /\ scene = "user" =>
           /\ Accounts!LoginsAgree /\ Accounts!AnnouncedOnce
           /\ Accounts!EditsStay /\ Accounts!CacheShowsTheRow
    /\ scene = "login" =>
           Logins!AppsAreApart /\ Logins!RefusedAreThere /\ Logins!KeysAreTheirs

\* An account reads what its rows entitle it to, at a moment of the request
\* (Access!LetInRightly and NotLockedOut).
DoorsAreRight == scene = "access" => Doors!LetInRightly /\ Doors!NotLockedOut

\* A login none of whose calls fails is answered (Login!LoginsSucceed).
LoginsSucceed == scene = "login" => Logins!LoginsSucceed

\* What was saved is there as it was saved, and is shown whole
\* (Resume!RecordsAreWhole, ReadersMissNothing and SilenceIsTrue,
\* Interview!SharingStays, Feedback!PendingIsSeen, Shop!SerialsStay,
\* ProductsAreWhole, BuyersPayWhatTheySaw, OneOrderEach, SeenOrdersHavePayments
\* and OrdersStay, SearchQuery!SearchIsComplete and RemarksFit); every reply
\* hangs in a thread that pages show whole (Comment!ThreadsAreWhole and
\* PagesAreComplete), and of a text a visitor sees the beginning
\* (Access!PartsAreShort).
RecordsAreWhole ==
    /\ scene = "resume" => Resumes!RecordsAreWhole /\ Resumes!ReadersMissNothing
    /\ scene = "experience" => Resumes!SilenceIsTrue
    /\ scene = "interview" => Interviews!SharingStays
    /\ scene = "feedback" => Opinions!PendingIsSeen
    /\ scene = "product" => Shops!SerialsStay /\ Shops!ProductsAreWhole
    /\ scene = "order" =>
           /\ Shops!BuyersPayWhatTheySaw /\ Shops!OneOrderEach
           /\ Shops!SeenOrdersHavePayments /\ Shops!OrdersStay
    /\ scene = "comment" => Threads!ThreadsAreWhole /\ Threads!PagesAreComplete
    /\ scene = "access" => Doors!PartsAreShort
    /\ scene = "search" => Searches!SearchIsComplete /\ Searches!RemarksFit

\* Nobody gets an answer unpaid or pays for none, and the tables say so
\* (LLM!AnswersArePaid, PricesAreLast, PaymentsAreAnswered and
\* RowsTellTheLedger; and PeoplePaid).
AnswersArePaid ==
    /\ scene = "llm" =>
           /\ Paid!AnswersArePaid /\ Paid!PricesAreLast
           /\ Paid!PaymentsAreAnswered /\ Paid!RowsTellTheLedger
    /\ PeoplePaid

\* A client who is shown the end has seen all of it, and is told of errors
\* (Stream!EndShowsAll and ErrorsAreTold).
EndShowsAll == scene = "stream" => Streamed!EndShowsAll /\ Streamed!ErrorsAreTold

\* Stream!RecvEnds.
RecvEnds == scene = "stream" => Streamed!RecvEnds
=============================================================================
