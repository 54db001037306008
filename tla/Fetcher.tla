------------------------------ MODULE Fetcher ------------------------------
(***************************************************************************)
(* How the web client asks the server: building the url of a request,      *)
(* sending it, telling an error of the api from another one, the default   *)
(* that stands for what is not found, and the cache that lets every caller *)
(* with the same arguments share one request.                              *)
(***************************************************************************)
EXTENDS Integers, Sequences

CONSTANTS
  FetchEntities,   \* the first argument of a call; "undefined" is one
  FetchTexts,      \* the text among the arguments, as the user typed it; it may be empty
  DecodeText,      \* decodeURIComponent with spaces: a function; "malformed" if it throws
  EncodeText,      \* encodeURIComponent with spaces: a function
  ServerText,      \* what a server reads of a parameter: a function
  MaxCalls         \* bound: calls of the api

\* Encoding is undone by the server, and the server reads a text that decoding changes as decoding
\* does.  This leaves out texts that have both something to decode and something to encode, as
\* a+b&c: the code sends them as they are, and the server reads less than was typed.
ASSUME FetchAssumption ==
  /\ "" \notin FetchEntities /\ FetchTexts \cap {"undefined", "throws"} = {}
  /\ "" \in FetchTexts => DecodeText[""] = "" /\ EncodeText[""] = ""
  /\ \A t \in FetchTexts \ {""} :
       /\ DecodeText[t] = t => EncodeText[t] \notin {"", "undefined", "throws"} /\ ServerText[EncodeText[t]] = t
       /\ DecodeText[t] \notin {t, "malformed"} => ServerText[t] = DecodeText[t]

\* Searching and suggesting encode what they send, browsing does not and is cached, and lineage
\* that is not found is a list that is empty.
Apis == {"search", "browse", "lineage"}
CachedApis == {"browse"}

Outcomes == {"ok", "notFound", "notFoundUnreadable", "serverError", "network"}

VARIABLES
  calls,           \* [api, args, request, state, answer]; request is 0 if none was sent
  requests,        \* [url, state, answer]; state is "waiting" or the outcome
  promiseOf,        \* the request by key of the arguments
  cachedResult     \* the answer by key

fetchVars == <<calls, requests, promiseOf, cachedResult>>

Default == [of |-> [path |-> "default", query |-> {}], data |-> 1]
NoAnswer == [of |-> [path |-> "nothing", query |-> {}], data |-> 1]

FetchInit == calls = <<>> /\ requests = <<>> /\ promiseOf = << >> /\ cachedResult = << >>

-----------------------------------------------------------------------------
(* The url.  A value is encoded unless it is encoded already, which is what   *)
(* the code takes a value for that decoding changes.                          *)

\* The error of a malformed value is caught, the value encoded, and the error thrown all the same.
EncodeValue(text) ==
  IF DecodeText[text] = "malformed" THEN "throws"
  ELSE IF DecodeText[text] = text THEN EncodeText[text] ELSE text

IsBlank(value) == value \in {"", "undefined"}

\* The pairs of the query; a blank value is left out.
BuildUrl(api, args) ==
  LET pairs == {<<"type", args[1]>>, <<"text", IF api = "search" THEN EncodeValue(args[2]) ELSE args[2]>>}
  IN [path |-> api, query |-> {p \in pairs : ~IsBlank(p[2])}]

Throws(url) == \E p \in url.query : p[2] = "throws"

\* What the server reads of the text of a url.
TextRead(url) ==
  LET texts == {p \in url.query : p[1] = "text"}
  IN IF texts = {} THEN "" ELSE ServerText[(CHOOSE p \in texts : TRUE)[2]]

-----------------------------------------------------------------------------
(* The cache.                                                                *)

\* Arguments that are undefined are left out.
Given(arg) == IF arg = "undefined" THEN <<>> ELSE <<arg>>
ArgsToKey(args) == Given(args[1]) \o Given(args[2])

\* An answer that is falsy is not found in the results.
IsCached(key) == key \in DOMAIN cachedResult /\ cachedResult[key].data # 0

\* Mutant: a call does not wait for the request another call has sent.
CachedOnly(key) == IsCached(key)

\* The promise of a request is kept, whatever becomes of it.
IsKnown(key) == IsCached(key) \/ key \in DOMAIN promiseOf

StateOf(outcome) == IF outcome \in {"waiting", "ok"} THEN outcome ELSE "failed"

\* What a call of the cache finds: the answer, or the request to wait for, which may have failed.
FromCache(key) ==
  IF IsCached(key) THEN [state |-> "ok", answer |-> cachedResult[key]]
  ELSE [state |-> StateOf(requests[promiseOf[key]].state), answer |-> requests[promiseOf[key]].answer]

-----------------------------------------------------------------------------
(* Calls.                                                                    *)

AddCall(api, args, request, found) ==
  calls' = Append(calls, [api |-> api, args |-> args, request |-> request, state |-> found.state, answer |-> found.answer])

\* The url cannot be built: the promise of the call is rejected, nothing is sent.
CallThrows(api, args) ==
  /\ Len(calls) < MaxCalls /\ Throws(BuildUrl(api, args))
  /\ AddCall(api, args, 0, [state |-> "failed", answer |-> NoAnswer])
  /\ UNCHANGED <<requests, promiseOf, cachedResult>>

CallSends(api, args) ==
  LET url == BuildUrl(api, args) IN
  /\ Len(calls) < MaxCalls /\ ~Throws(url)
  /\ api \in CachedApis => ~IsKnown(ArgsToKey(args))
  /\ requests' = Append(requests, [url |-> url, state |-> "waiting", answer |-> NoAnswer])
  /\ promiseOf' = IF api \in CachedApis
                 THEN [k \in DOMAIN promiseOf \cup {ArgsToKey(args)} |->
                         IF k = ArgsToKey(args) THEN Len(requests) + 1 ELSE promiseOf[k]]
                 ELSE promiseOf
  /\ AddCall(api, args, Len(requests) + 1, [state |-> "waiting", answer |-> NoAnswer])
  /\ UNCHANGED cachedResult

CallFindsCached(api, args) ==
  /\ Len(calls) < MaxCalls /\ api \in CachedApis /\ IsKnown(ArgsToKey(args))
  /\ AddCall(api, args, promiseOf[ArgsToKey(args)], FromCache(ArgsToKey(args)))
  /\ UNCHANGED <<requests, promiseOf, cachedResult>>

\* A response that is not ok is an error of the api with its status, if its body can be read as JSON;
\* otherwise reading the body fails, and the status is lost.
IsNotFoundApiError(outcome) == outcome = "notFound"

ReturnDefaultIfNotFound(api, outcome) == api = "lineage" /\ IsNotFoundApiError(outcome)

\* The response arrives.  The callers that wait for it go on before anything else happens.
Respond(r, outcome, data) ==
  LET answer == [of |-> requests[r].url, data |-> data]
      keys == {k \in DOMAIN promiseOf : promiseOf[k] = r}
  IN
  /\ requests[r].state = "waiting"
  /\ requests' = [requests EXCEPT ![r] = [@ EXCEPT !.state = outcome, !.answer = IF outcome = "ok" THEN answer ELSE NoAnswer]]
  /\ calls' = [i \in DOMAIN calls |->
                 IF calls[i].request # r \/ calls[i].state # "waiting" THEN calls[i]
                 ELSE IF outcome = "ok" THEN [calls[i] EXCEPT !.state = "ok", !.answer = answer]
                 ELSE IF ReturnDefaultIfNotFound(calls[i].api, outcome)
                      THEN [calls[i] EXCEPT !.state = "ok", !.answer = Default]
                      ELSE [calls[i] EXCEPT !.state = "failed"]]
  /\ cachedResult' = [k \in DOMAIN cachedResult \cup (IF outcome = "ok" THEN keys ELSE {}) |->
                        IF k \in keys /\ outcome = "ok" THEN answer ELSE cachedResult[k]]
  /\ UNCHANGED promiseOf

FetchNext ==
  \/ \E api \in Apis, e \in FetchEntities, t \in FetchTexts : CallThrows(api, <<e, t>>)
  \/ \E api \in Apis, e \in FetchEntities, t \in FetchTexts : CallSends(api, <<e, t>>)
  \/ \E api \in Apis, e \in FetchEntities, t \in FetchTexts : CallFindsCached(api, <<e, t>>)
  \/ \E r \in DOMAIN requests, o \in Outcomes, data \in 0..1 : Respond(r, o, data)

FetchSpec == FetchInit /\ [][FetchNext]_fetchVars

-----------------------------------------------------------------------------
FetchTypeOK ==
  /\ \A i \in DOMAIN calls :
       /\ calls[i].api \in Apis /\ calls[i].args \in FetchEntities \X FetchTexts
       /\ calls[i].request \in 0..Len(requests) /\ calls[i].state \in {"waiting", "ok", "failed"}
  /\ \A r \in DOMAIN requests : requests[r].state \in Outcomes \cup {"waiting"}
  /\ \A k \in DOMAIN promiseOf : promiseOf[k] \in DOMAIN requests
  /\ DOMAIN cachedResult \subseteq DOMAIN promiseOf

\* A call is answered with what the server said of the arguments of this very call, through the
\* cache too, or with the default if the server has nothing.
AnswersOwnArguments ==
  \A i \in DOMAIN calls : calls[i].state = "ok" =>
    \/ calls[i].answer.of = BuildUrl(calls[i].api, calls[i].args)
    \/ calls[i].answer = Default /\ calls[i].api = "lineage"

\* The cached api is asked once for each arguments, however many callers there are, while the
\* answer is on its way and after it, an answer that is falsy included.
CachedAskedOnce ==
  \A r, s \in DOMAIN requests : requests[r].url = requests[s].url /\ requests[r].url.path \in CachedApis => r = s

\* The server reads the text the user typed, or the text it is the encoded form of.
ReadAsTyped ==
  \A i \in DOMAIN calls : calls[i].api = "search" /\ calls[i].request # 0 =>
    TextRead(requests[calls[i].request].url) \in {calls[i].args[2], DecodeText[calls[i].args[2]]}

\* A caller gets the answer to its own arguments, asked as typed, though callers
\* share requests and answers.
AnswersAreOwn ==
  /\ FetchTypeOK /\ AnswersOwnArguments /\ CachedAskedOnce /\ ReadAsTyped
=============================================================================
