------------------------------ MODULE UrlStore ------------------------------
(***************************************************************************)
(* What the URL shortener promises its clients: a store of links on which  *)
(* every request takes effect at one moment between its arrival and its    *)
(* answer.  There are no statements, transactions, locks or rows read      *)
(* earlier; only that a request may be told of an internal error.          *)
(***************************************************************************)
EXTENDS Naturals

CONSTANTS Codes, Shortens, Resolves, Deactivates, TimeToLive, Never, NoLink

VARIABLES
    now,
    links,      \* [Codes -> link or NoLink]
    open,       \* the requests that have arrived and are not answered
    about,      \* [Requests -> the code it is about, as its client knows it]
    until,      \* [Shortens -> when the link is to expire]
    outcome,    \* [Resolves -> what the request found when it last looked]
    answer      \* [Requests -> status of the answer]

vars == <<now, links, open, about, until, outcome, answer>>

Requests == Shortens \cup Resolves \cup Deactivates

Unknown == "unknown"

NotLooked == [status |-> "none", location |-> NoLink]

Init ==
    /\ now = 0
    /\ links = [c \in Codes |-> NoLink]
    /\ open = {}
    /\ about = [r \in Requests |-> Unknown]
    /\ until = [r \in Shortens |-> Never]
    /\ outcome = [r \in Resolves |-> NotLooked]
    /\ answer = [r \in Requests |-> "none"]

\* A GET or DELETE brings a code; a POST gets one with its answer.  The
\* lifetime of a link counts from the arrival of its POST.
Arrive(r) ==
    /\ r \notin open /\ answer[r] = "none"
    /\ open' = open \cup {r}
    /\ \/ /\ r \in Shortens
          /\ until' = [until EXCEPT ![r] =
                 IF TimeToLive[r] = Never THEN Never ELSE now + TimeToLive[r]]
          /\ UNCHANGED about
       \/ /\ r \notin Shortens
          /\ \E c \in Codes : about' = [about EXCEPT ![r] = c]
          /\ UNCHANGED until
    /\ UNCHANGED <<now, links, outcome, answer>>

Answer(r, status) ==
    /\ r \in open
    /\ open' = open \ {r}
    /\ answer' = [answer EXCEPT ![r] = status]
    /\ UNCHANGED <<now, until, outcome>>

-----------------------------------------------------------------------------
(* The operations on the links.                                            *)

Create(r, c) ==
    /\ links[c] = NoLink
    /\ links' = [links EXCEPT ![c] = [original_url |-> r, is_active |-> TRUE,
                                      expires_at |-> until[r]]]

Removable(c) == links[c] # NoLink /\ links[c].is_active

Remove(c) ==
    /\ Removable(c)
    /\ links' = [links EXCEPT ![c].is_active = FALSE]

Lookup(c) ==
    IF /\ Removable(c)
       /\ links[c].expires_at # Never => now <= links[c].expires_at
    THEN [status |-> "302", location |-> links[c].original_url]
    ELSE [status |-> "404", location |-> NoLink]

-----------------------------------------------------------------------------
(* The requests.                                                           *)

\* Without a free code among those it tries, a POST is refused.
Shorten(r) ==
    \/ \E c \in Codes : /\ Answer(r, "201") /\ Create(r, c)
                       /\ about' = [about EXCEPT ![r] = c]
    \/ /\ Answer(r, "503") /\ \E c \in Codes : links[c] # NoLink
       /\ UNCHANGED <<links, about>>

Deactivate(r) ==
    /\ UNCHANGED about
    /\ \/ Answer(r, "204") /\ Remove(about[r])
       \/ Answer(r, "404") /\ ~Removable(about[r]) /\ UNCHANGED links

\* Of an internal error the client does not know what it left.
InternalError(r) ==
    /\ Answer(r, "500")
    /\ \/ UNCHANGED links
       \/ r \in Shortens /\ \E c \in Codes : Create(r, c)
       \/ r \in Deactivates /\ Remove(about[r])
    /\ UNCHANGED about

\* A GET may look more than once; it answers what it saw last.
Look(r) ==
    /\ r \in open
    /\ outcome' = [outcome EXCEPT ![r] = Lookup(about[r])]
    /\ UNCHANGED <<now, links, open, about, until, answer>>

Resolve(r) ==
    /\ outcome[r] # NotLooked
    /\ Answer(r, outcome[r].status)
    /\ UNCHANGED <<links, about>>

\* Time passes, and some GETs look again as soon as it has.
Tick ==
    /\ now' = now + 1
    /\ \E looking \in SUBSET (Resolves \cap open) :
           outcome' = [r \in Resolves |-> IF r \in looking THEN Lookup(about[r])' ELSE outcome[r]]
    /\ UNCHANGED <<links, open, about, until, answer>>

Next ==
    \/ \E r \in Requests : Arrive(r)
    \/ \E r \in Shortens : Shorten(r)
    \/ \E r \in Deactivates : Deactivate(r)
    \/ \E r \in Shortens \cup Deactivates : InternalError(r)
    \/ \E r \in Resolves : Look(r) \/ Resolve(r)
    \/ Tick

Spec == Init /\ [][Next]_vars

=============================================================================
