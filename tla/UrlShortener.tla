---------------------------- MODULE UrlShortener ----------------------------
(***************************************************************************)
(* url_shortener: concurrent POST /shorten, GET /{code} and DELETE /{code} *)
(* requests against one table short_urls.                                  *)
(*                                                                         *)
(* Every request runs in a database session of its own, which get_db       *)
(* commits when the handler returns and rolls back when it raises, before  *)
(* the response is sent.  A handler is interrupted at each statement it    *)
(* awaits; an action is one statement with the code that follows it.  The  *)
(* database is PostgreSQL at READ COMMITTED, the default of settings: a    *)
(* statement sees the committed rows, an INSERT waits for an uncommitted   *)
(* INSERT of the same unique code, an UPDATE for an uncommitted UPDATE of  *)
(* the same row.                                                           *)
(***************************************************************************)
EXTENDS Naturals, FiniteSets

CONSTANTS
    Codes,                  \* the codes generate_short_code may return
    Shortens,               \* the POST requests; each brings its own URL
    Resolves,               \* the GET requests
    Deactivates,            \* the DELETE requests
    TimeToLive,             \* expires_in_seconds of a POST, or Never
    Never,
    NoRow,                  \* what a query for a missing code returns
    MaxGenerationAttempts,  \* _MAX_GENERATION_ATTEMPTS
    MaxTime                 \* bound of the clock

Requests == Shortens \cup Resolves \cup Deactivates

ASSUME CodeAssumption == Codes # {}
ASSUME RequestAssumption ==
    /\ Shortens \cap Resolves = {}
    /\ Shortens \cap Deactivates = {}
    /\ Resolves \cap Deactivates = {}
ASSUME TimeAssumption ==
    /\ MaxTime \in Nat
    /\ Never \notin Nat
    /\ TimeToLive \in [Shortens -> (Nat \ {0}) \cup {Never}]
ASSUME AttemptAssumption == MaxGenerationAttempts \in Nat \ {0}

Expiry == Nat \cup {Never}

\* The URL of a row is named by the request that brought it.
Row == [original_url : Shortens, is_active : BOOLEAN, expires_at : Expiry]

ASSUME NoRowAssumption == NoRow \notin Row

Response == {"none", "201", "204", "302", "404", "500", "503"}

VARIABLES
    now,
    short_urls,     \* the committed rows: [Codes -> Row or NoRow]
    pc,             \* where request r is
    code,           \* the code r is about; arbitrary before r arrives
    attempt,        \* the attempt of shorten()'s loop
    expires_at,     \* computed by shorten() before its loop
    record,         \* the row resolve() has read
    write,          \* the uncommitted row of r's transaction
    response,
    arrival         \* history: what held of the code when GET or DELETE r arrived

shortenVars == <<attempt, expires_at>>
vars == <<now, short_urls, pc, code, shortenVars, record, write, response, arrival>>

-----------------------------------------------------------------------------
(* The model ShortUrl.                                                     *)

\* Mutant: the instant of expiry is excluded.
IsExpiredAtOnce(row) == row.expires_at # Never /\ now >= row.expires_at

\* Mutant: the TTL is never looked at.
IsExpiredNever(row) == FALSE

\* ShortUrl.is_expired
IsExpired(row) == row.expires_at # Never /\ now > row.expires_at

\* ShortUrl.is_resolvable
IsResolvable(row) == row.is_active /\ ~IsExpired(row)

\* Mutant: no unique constraint on the column.
UniqueViolatedNever(c) == FALSE

\* code: unique=True
UniqueViolated(c) == short_urls[c] # NoRow

\* Mutant: UPDATE without the filter on is_active.
UpdateMatchesAny(c) == short_urls[c] # NoRow

\* WHERE code = :code AND is_active
UpdateMatches(c) == short_urls[c] # NoRow /\ short_urls[c].is_active

\* The locks that uncommitted statements hold.
InsertHeld(c) == \E q \in Shortens : pc[q] = "flushed" /\ code[q] = c
RowHeld(c) == \E q \in Deactivates : pc[q] = "updated" /\ code[q] = c

-----------------------------------------------------------------------------
(* Requests come and go.                                                   *)

Answered(c, answer) == \E q \in Requests : code[q] = c /\ response[q] = answer

\* What is known of code c: a client has been told it was issued, a client has
\* been told it is gone, its time is over.
Facts(c) ==
    {f \in {"issued", "gone", "expired"} :
        CASE f = "issued"  -> Answered(c, "201")
          [] f = "gone"    -> Answered(c, "204")
          [] f = "expired" -> /\ short_urls[c] # NoRow /\ short_urls[c].expires_at # Never
                              /\ short_urls[c].expires_at < now}

Init ==
    /\ now = 0
    /\ short_urls = [c \in Codes |-> NoRow]
    /\ pc = [r \in Requests |-> "arriving"]
    /\ code = [r \in Requests |-> CHOOSE c \in Codes : TRUE]
    /\ attempt = [r \in Shortens |-> 0]
    /\ expires_at = [r \in Shortens |-> Never]
    /\ record = [r \in Resolves |-> NoRow]
    /\ write = [r \in Shortens \cup Deactivates |-> NoRow]
    /\ response = [r \in Requests |-> "none"]
    /\ arrival = [r \in Resolves \cup Deactivates |-> {}]

Goto(r, place) == pc' = [pc EXCEPT ![r] = place]

\* Request r arrives, about code c, and its handler runs up to "place".
Arrive(r, c, place) ==
    /\ pc[r] = "arriving"
    /\ Goto(r, place)
    /\ code' = [code EXCEPT ![r] = c]
    /\ UNCHANGED <<now, short_urls, attempt, record, write, response>>

\* The handler raised: rollback, and the answer of the exception handlers.
Fail(r, answer) ==
    /\ Goto(r, "answered")
    /\ response' = [response EXCEPT ![r] = answer]
    /\ UNCHANGED <<now, short_urls, write, arrival>>

\* Mutant: session.commit() is missing.
CommittedNothing(r) == short_urls

\* The table once r's transaction is committed.
Committed(r) == [short_urls EXCEPT ![code[r]] = write[r]]

\* The handler returned: commit, and the answer of the endpoint.
Commit(r, answer) ==
    /\ short_urls' = Committed(r)
    /\ Goto(r, "answered")
    /\ response' = [response EXCEPT ![r] = answer]
    /\ UNCHANGED <<now, code, shortenVars, record, write, arrival>>

\* The commit raises, a lost connection for one: whether it took effect is
\* open, the client is told it failed.
CommitFails(r) ==
    /\ pc[r] \in {"flushed", "updated"}
    /\ short_urls' \in {short_urls, Committed(r)}
    /\ Goto(r, "answered")
    /\ response' = [response EXCEPT ![r] = "500"]
    /\ UNCHANGED <<now, code, shortenVars, record, write, arrival>>

-----------------------------------------------------------------------------
(* POST /shorten                                                           *)

\* expires_at is computed once; the first code is generated.
BeginShorten(r) ==
    /\ \E c \in Codes : Arrive(r, c, "checking")
    /\ expires_at' = [expires_at EXCEPT ![r] =
           IF TimeToLive[r] = Never THEN Never ELSE now + TimeToLive[r]]
    /\ UNCHANGED arrival

AttemptsRemain(r) == attempt[r] + 1 < MaxGenerationAttempts

\* Mutant: the attempts are not counted, as in a loop "while True".
RegenerateUncounted(r) ==
    /\ pc[r] = "checking"
    /\ short_urls[code[r]] # NoRow
    /\ \E c \in Codes : code' = [code EXCEPT ![r] = c]
    /\ UNCHANGED <<now, short_urls, pc, shortenVars, record, write, response, arrival>>

\* code_exists(code) is true: another code ...
Regenerate(r) ==
    /\ pc[r] = "checking"
    /\ short_urls[code[r]] # NoRow
    /\ AttemptsRemain(r)
    /\ attempt' = [attempt EXCEPT ![r] = @ + 1]
    /\ \E c \in Codes : code' = [code EXCEPT ![r] = c]
    /\ UNCHANGED <<now, short_urls, pc, expires_at, record, write, response, arrival>>

\* ... or CodeGenerationError.
Exhausted(r) ==
    /\ pc[r] = "checking"
    /\ short_urls[code[r]] # NoRow
    /\ ~AttemptsRemain(r)
    /\ Fail(r, "503")
    /\ UNCHANGED <<code, shortenVars, record>>

\* code_exists(code) is false.
CodeFree(r) ==
    /\ pc[r] = "checking"
    /\ short_urls[code[r]] = NoRow
    /\ Goto(r, "creating")
    /\ UNCHANGED <<now, short_urls, code, shortenVars, record, write, response, arrival>>

\* flush() in create()
Insert(r) ==
    /\ pc[r] = "creating"
    /\ ~InsertHeld(code[r])
    /\ ~UniqueViolated(code[r])
    /\ write' = [write EXCEPT ![r] = [original_url |-> r, is_active |-> TRUE,
                                      expires_at |-> expires_at[r]]]
    /\ Goto(r, "flushed")
    /\ UNCHANGED <<now, short_urls, code, shortenVars, record, response, arrival>>

\* flush() raises IntegrityError, for which there is no handler.
InsertConflicts(r) ==
    /\ pc[r] = "creating"
    /\ UniqueViolated(code[r])
    /\ Fail(r, "500")
    /\ UNCHANGED <<code, shortenVars, record>>

CommitShorten(r) == pc[r] = "flushed" /\ Commit(r, "201")

-----------------------------------------------------------------------------
(* GET /{code}                                                             *)

BeginResolve(r) ==
    /\ \E c \in Codes : /\ Arrive(r, c, "selecting")
                       /\ arrival' = [arrival EXCEPT ![r] = Facts(c)]
    /\ UNCHANGED expires_at

Select(r) ==
    /\ pc[r] = "selecting"
    /\ record' = [record EXCEPT ![r] = short_urls[code[r]]]
    /\ Goto(r, "evaluating")
    /\ UNCHANGED <<now, short_urls, code, shortenVars, write, response, arrival>>

\* The row read is judged by the clock at that moment.
Redirect(r) ==
    /\ pc[r] = "evaluating"
    /\ record[r] # NoRow /\ IsResolvable(record[r])
    /\ Goto(r, "answered")
    /\ response' = [response EXCEPT ![r] = "302"]
    /\ UNCHANGED <<now, short_urls, code, shortenVars, record, write, arrival>>

NotResolvable(r) ==
    /\ pc[r] = "evaluating"
    /\ record[r] # NoRow => ~IsResolvable(record[r])
    /\ Fail(r, "404")
    /\ UNCHANGED <<code, shortenVars, record>>

-----------------------------------------------------------------------------
(* DELETE /{code}                                                          *)

BeginDeactivate(r) ==
    /\ \E c \in Codes : /\ Arrive(r, c, "updating")
                       /\ arrival' = [arrival EXCEPT ![r] = Facts(c)]
    /\ UNCHANGED expires_at

\* UPDATE ... RETURNING returns the row.
Update(r) ==
    /\ pc[r] = "updating"
    /\ ~RowHeld(code[r])
    /\ UpdateMatches(code[r])
    /\ write' = [write EXCEPT ![r] = [short_urls[code[r]] EXCEPT !.is_active = FALSE]]
    /\ Goto(r, "updated")
    /\ UNCHANGED <<now, short_urls, code, shortenVars, record, response, arrival>>

\* It returns no row: ShortCodeNotFoundError.
UpdateNothing(r) ==
    /\ pc[r] = "updating"
    /\ ~RowHeld(code[r])
    /\ ~UpdateMatches(code[r])
    /\ Fail(r, "404")
    /\ UNCHANGED <<code, shortenVars, record>>

CommitDeactivate(r) == pc[r] = "updated" /\ Commit(r, "204")

-----------------------------------------------------------------------------
ShortenStep(r) ==
    \/ BeginShorten(r) \/ Regenerate(r) \/ Exhausted(r) \/ CodeFree(r)
    \/ Insert(r) \/ InsertConflicts(r) \/ CommitShorten(r) \/ CommitFails(r)

ResolveStep(r) == BeginResolve(r) \/ Select(r) \/ Redirect(r) \/ NotResolvable(r)

DeactivateStep(r) ==
    \/ BeginDeactivate(r) \/ Update(r) \/ UpdateNothing(r)
    \/ CommitDeactivate(r) \/ CommitFails(r)

Tick ==
    /\ now < MaxTime
    /\ now' = now + 1
    /\ UNCHANGED <<short_urls, pc, code, shortenVars, record, write, response, arrival>>

Done == (\A r \in Requests : pc[r] = "answered") /\ UNCHANGED vars

Next ==
    \/ \E r \in Shortens : ShortenStep(r)
    \/ \E r \in Resolves : ResolveStep(r)
    \/ \E r \in Deactivates : DeactivateStep(r)
    \/ Tick
    \/ Done

\* Requests are served by one event loop, the database answers statements.
Fairness ==
    /\ \A r \in Shortens : WF_vars(ShortenStep(r))
    /\ \A r \in Resolves : WF_vars(ResolveStep(r))
    /\ \A r \in Deactivates : WF_vars(DeactivateStep(r))

Spec == Init /\ [][Next]_vars /\ Fairness

-----------------------------------------------------------------------------
(* Properties.                                                             *)

\* Every variable has its type.
TypeOK ==
    /\ now \in 0 .. MaxTime
    /\ short_urls \in [Codes -> Row \cup {NoRow}]
    /\ pc \in [Requests -> {"arriving", "checking", "creating", "flushed", "selecting",
                            "evaluating", "updating", "updated", "answered"}]
    /\ code \in [Requests -> Codes]
    /\ attempt \in [Shortens -> 0 .. MaxGenerationAttempts - 1]
    /\ expires_at \in [Shortens -> Expiry]
    /\ record \in [Resolves -> Row \cup {NoRow}]
    /\ write \in [Shortens \cup Deactivates -> Row \cup {NoRow}]
    /\ response \in [Requests -> Response]
    /\ arrival \in [Resolves \cup Deactivates -> SUBSET {"issued", "gone", "expired"}]

\* "Checks all codes regardless of active/inactive state to prevent re-use"
\* (url_repo.py:62-63): the code a POST was answered with is its own for ever,
\* however the requests race between code_exists and the commit.
CodesNeverReused ==
    \A r \in Shortens : response[r] = "201" =>
        short_urls[code[r]] # NoRow /\ short_urls[code[r]].original_url = r

\* Of the DELETE requests for a code at most one succeeds.
DeactivatedOnce ==
    \A q, r \in Deactivates :
        response[q] = "204" /\ response[r] = "204" /\ code[q] = code[r] => q = r

\* "The code will no longer resolve after this call" (urls.py:102): a GET that
\* arrives after a DELETE was answered, or after the TTL passed, finds nothing,
\* and one that is redirected is redirected to the URL the code was issued for.
RedirectJustified ==
    \A r \in Resolves : response[r] = "302" =>
        LET row == short_urls[code[r]]
        IN  /\ row # NoRow /\ row.original_url = record[r].original_url
            /\ arrival[r] \cap {"gone", "expired"} = {}

\* A code that had been answered to a client is found by requests arriving
\* later, until it is deactivated or expires.
NotFoundJustified ==
    \A r \in Resolves \cup Deactivates :
        response[r] = "404" /\ "issued" \in arrival[r] =>
            LET row == short_urls[code[r]]
            IN  /\ row # NoRow
                /\ ~row.is_active \/ (r \in Resolves /\ IsExpired(row))

\* A committed row is never removed, replaced or activated again.
RowsPersist ==
    [][\A c \in Codes : short_urls[c] # NoRow =>
           short_urls'[c] \in {short_urls[c], [short_urls[c] EXCEPT !.is_active = FALSE]}]_vars

\* The requests that have come and have no answer yet.
Open == {r \in Requests : pc[r] \notin {"arriving", "answered"}}

\* No request waits for ever, whoever holds the row or the code it needs: time
\* and again everyone who has come has an answer.
EveryRequestAnswered == []<>(Open = {})

\* architecture.md:1026, "service retries up to _MAX_GENERATION_ATTEMPTS=10
\* times on IntegrityError": a POST whose transaction could commit never fails
\* with an internal error.
IntegrityErrorRetried ==
    \A r \in Shortens : response[r] = "500" => write[r] # NoRow

-----------------------------------------------------------------------------
(* The store that clients see.  A write takes effect when it is committed; *)
(* what a GET found is what the row it read says by the clock of now.      *)

Answering(r) ==
    IF record[r] # NoRow /\ IsResolvable(record[r]) THEN "302" ELSE "404"

Outcome(r) ==
    LET status == IF pc[r] = "evaluating" THEN Answering(r) ELSE response[r]
    IN  [status |-> status,
         location |-> IF status = "302" THEN record[r].original_url ELSE NoRow]

Outcomes == [r \in Resolves |-> Outcome(r)]

\* The client of a POST knows its code only when it is answered.
Known(r) == IF r \in Shortens THEN response[r] = "201" ELSE pc[r] # "arriving"

About == [r \in Requests |-> IF Known(r) THEN code[r] ELSE "unknown"]

Store == INSTANCE UrlStore WITH
    NoLink <- NoRow, links <- short_urls, open <- Open, about <- About,
    until <- expires_at, outcome <- Outcomes, answer <- response

\* Every request takes effect at once, at a moment between its arrival and its
\* answer, although its statements interleave with those of the others: a POST
\* and a DELETE when they commit, a GET when it reads its row or, if that one
\* expires before it is judged, when it expires.
ImplementsStore == Store!Spec

=============================================================================
