----------------------------- MODULE CouchClient -----------------------------
(***************************************************************************)
(* The CouchDB client (envoxy/couchdb/client.py): one caller that uses one *)
(* dictionary of params for its finds, the retries of a request, and what  *)
(* the caller is told.  The server may execute a request whose answer does *)
(* not arrive.                                                             *)
(*                                                                         *)
(* The dictionary is the set of its keys: conditions on fields, and the    *)
(* names of Paging, which are options of the query.                        *)
(***************************************************************************)
EXTENDS Naturals

CONSTANTS
  Servers,       \* the server keys configured, with a session each
  Fields,        \* conditions written as a field's name
  Operators,     \* conditions written field__op with a valid op
  Retries,       \* attempts of _execute_request (3)
  MaxUses        \* bound on the finds with one dictionary

ASSUME CouchAssumption ==
  Retries \in Nat \ {0} /\ Fields \cap Operators = {} /\ MaxUses \in Nat

Paging == {"page_size", "page_start_index", "order_by"}

VARIABLES
  phase,     \* where the caller is
  call,      \* find, get or post
  given,     \* the keys the caller filled the dictionary with
  params,    \* those that are still in it
  uses,      \* finds it was used for
  query,     \* the last query made of it
  tries,     \* attempts of the current request
  backoff,   \* seconds it waits before the next
  waited,    \* seconds it waited so far
  stored,    \* documents the current request has stored
  told       \* what the caller got: nothing, a result, empty or raised

asking    == <<given, params, uses, query>>
executing == <<tries, backoff, waited, stored>>
couch     == <<phase, call, asking, executing, told>>

NoQuery == [selector |-> {}, options |-> {}]

CouchInit ==
  /\ phase = "idle" /\ call = "none" /\ told = "nothing"
  /\ given \in SUBSET (Fields \cup Operators \cup Paging)
  /\ params = given /\ uses = 0 /\ query = NoQuery
  /\ tries = 0 /\ backoff = 1 /\ waited = 0 /\ stored = 0

\* Fault: paging is read from the dictionary and not taken out of it.
GetSelectorGetting(dict) ==
  [query |-> [selector |-> {[key |-> k, wrapped |-> k \in Operators]
                              : k \in dict},
              options |-> dict \cap Paging],
   rest |-> dict]

\* _get_selector takes the paging out of the caller's dictionary.  A valid
\* operator wraps the value; the key keeps the name it was given.
GetSelector(dict) ==
  [query |-> [selector |-> {[key |-> k, wrapped |-> k \in Operators]
                              : k \in dict \ Paging},
              options |-> dict \cap Paging],
   rest |-> dict \ Paging]

NewRequest(word) ==
  tries' = 0 /\ backoff' = 1 /\ waited' = 0 /\ stored' = 0 /\ told' = word

Find ==
  /\ phase = "idle" /\ uses < MaxUses
  /\ call' = "find"
  /\ query' = GetSelector(params).query /\ params' = GetSelector(params).rest
  /\ uses' = uses + 1 /\ phase' = "base" /\ NewRequest("nothing")
  /\ UNCHANGED given

\* int() of page_size or page_start_index raises, after all three are out.
FindRaises ==
  /\ phase = "idle" /\ uses < MaxUses
  /\ params \cap {"page_size", "page_start_index"} # {}
  /\ params' = GetSelector(params).rest
  /\ uses' = uses + 1 /\ query' = NoQuery
  /\ call' = "find" /\ NewRequest("raised")
  /\ UNCHANGED <<phase, given>>

GetOrPost ==
  /\ phase = "idle"
  /\ call' \in {"get", "post"} /\ phase' = "base" /\ NewRequest("nothing")
  /\ UNCHANGED asking

\* base_request: a KeyError for a server that is not configured.
BaseRequest(server) ==
  /\ phase = "base"
  /\ IF server \in Servers THEN phase' = "request" /\ UNCHANGED told
     ELSE phase' = "idle" /\ told' = "raised"
  /\ UNCHANGED <<call, asking, executing>>

Reply(word) ==
  /\ phase' = "idle" /\ told' = word
  /\ UNCHANGED <<call, asking, backoff, waited>>

\* The server does what it is asked, and its answer parses.  What CouchDB
\* says of a document it created has no "docs": like any other body that post
\* does not expect, it is returned as it is.
Answered ==
  /\ phase = "request"
  /\ tries' = tries + 1
  /\ stored' = IF call = "post" THEN stored + 1 ELSE stored
  /\ Reply("result")

\* A status of 400 or above makes the response false; of find and get another
\* that is not expected, or a body that does not parse, ends like that too.
Refused ==
  /\ phase = "request"
  /\ tries' = tries + 1
  /\ UNCHANGED stored
  /\ Reply("empty")

\* post returned and was stored, but its body does not parse.
Unreadable ==
  /\ phase = "request" /\ call = "post"
  /\ tries' = tries + 1 /\ stored' = stored + 1
  /\ Reply("empty")

\* Another status below 400, of a proxy that redirects for one, does not make
\* the response false: post returns its body, although nothing was stored.
AnsweredOtherwise ==
  /\ phase = "request" /\ call = "post"
  /\ tries' = tries + 1
  /\ UNCHANGED stored
  /\ Reply("result")

\* A RequestException, before or after the server did it.
Failed ==
  /\ phase = "request"
  /\ tries' = tries + 1
  /\ stored' \in {stored} \cup (IF call = "post" THEN {stored + 1} ELSE {})
  /\ phase' = "failed"
  /\ UNCHANGED <<call, asking, backoff, waited, told>>

\* Fault: one more attempt than there are retries.
WaitOnceMore ==
  /\ phase = "failed" /\ tries < Retries + 1
  /\ waited' = waited + backoff /\ backoff' = 2 * backoff
  /\ phase' = "request"
  /\ UNCHANGED <<call, asking, tries, stored, told>>

Wait ==
  /\ phase = "failed" /\ tries < Retries
  /\ waited' = waited + backoff /\ backoff' = 2 * backoff
  /\ phase' = "request"
  /\ UNCHANGED <<call, asking, tries, stored, told>>

GiveUp ==
  /\ phase = "failed" /\ tries >= Retries
  /\ UNCHANGED <<tries, stored>>
  /\ Reply("raised")

CouchNext ==
  \/ Find \/ FindRaises \/ GetOrPost
  \/ \E server \in Servers \cup {"unknown"} : BaseRequest(server)
  \/ Answered \/ AnsweredOtherwise \/ Refused \/ Unreadable
  \/ Failed \/ Wait \/ GiveUp

CouchSpec == CouchInit /\ [][CouchNext]_couch

-----------------------------------------------------------------------------
(* Properties.                                                             *)

\* A post is not idempotent and is repeated when its answer is lost.  Neither
\* a result nor an exception tells its caller whether it was stored.  What does
\* hold: only a post stores, never more than one document per attempt; there
\* are at most three attempts, and each wait between them is twice the one
\* before; and a request is given up only after all of them.
PostsAccountedFor ==
  /\ call # "post" => stored = 0
  /\ stored <= tries /\ tries <= Retries
  /\ waited = backoff - 1
  /\ phase = "failed" => backoff = 2 ^ (tries - 1)
  /\ phase = "idle" /\ told = "raised" /\ tries > 0 => tries = Retries

\* Each find with one dictionary sends the conditions the caller filled it
\* with, under the keys he wrote and with the values of the same ones wrapped,
\* and nothing else; but only the first is paged and ordered.  A key is sent
\* with its suffix: "version__gt" is a condition on a field of that name
\* (client.py:67), where docs/COUCHDB.md:5-23 documents one on "version".
FindsSendAlike ==
  query # NoQuery =>
    /\ query.selector = {[key |-> k, wrapped |-> k \in Operators]
                           : k \in given \ Paging}
    /\ query.options = IF uses = 1 THEN given \cap Paging ELSE {}
=============================================================================
