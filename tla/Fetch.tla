------------------------------- MODULE Fetch -------------------------------
(***************************************************************************)
(* fetch.Fetcher: the download of one url source into a file of its own     *)
(* directory.  Every attempt resolves the name again, so the address may    *)
(* change between attempts; a body may break off anywhere; the job's        *)
(* context may end at any time.                                             *)
(*                                                                          *)
(* An address is its class in the eyes of package netip, a URL the parts of *)
(* it that decide, a body its length.                                       *)
(***************************************************************************)
EXTENDS Naturals, Sequences

CONSTANTS
    MaxFetches,    \* source.url.max_attempts
    MaxBytes,      \* source.url.max_bytes
    Hosts,         \* host names; NoHost is the empty one
    NoHost,
    AllowHosts,    \* source.url.allow_hosts, {}: any
    PrivateHosts,  \* source.url.allow_private_hosts
    MediaTypes,    \* what a Content-Type may say
    AllowTypes     \* source.url.allowed_media_types, {}: any

ASSUME FetchAssumption ==
    /\ MaxFetches \in Nat \ {0} /\ MaxBytes \in Nat \ {0}
    /\ AllowHosts \subseteq Hosts /\ PrivateHosts \subseteq Hosts /\ NoHost \notin Hosts
    /\ AllowTypes \subseteq MediaTypes

VARIABLES
    expired,   \* the job's context has ended
    fetchPc,   \* "idle", "get", "body", "backoff" or "done"
    attempt,   \* the attempt under way
    file,      \* the downloaded file
    spent,     \* the cleanup's sync.Once has fired
    fetchErr,  \* what Fetch returned
    origin     \* the class of address the file came from

fetchVars == <<fetchPc, attempt, file, spent, fetchErr, origin>>

NoFile == [bytes |-> 0, state |-> "absent"]
ContextEnded == [cause |-> "timeout", retryable |-> FALSE, says |-> {}]
NoError == [cause |-> "none", retryable |-> FALSE, says |-> {}]

-----------------------------------------------------------------------------
(* The rules                                                                *)

\* Classes of addresses: "unique_local" is IPv6's private range, "imds6" the
\* metadata prefix inside it.
Addresses == {"public", "loopback", "private", "unique_local", "imds6", "link_local",
              "unspecified", "multicast", "cgnat"}

DenyPrivate == Addresses \ {"public"}
DenyMetadata == {"link_local", "imds6", "unspecified", "multicast", "cgnat"}

\* dial chooses by the name, before it is resolved.
Denied(host) == IF host \in PrivateHosts THEN DenyMetadata ELSE DenyPrivate

permits(host) == AllowHosts = {} \/ host \in AllowHosts \/ host \in PrivateHosts

validateURL(u) ==
    /\ u.parses /\ ~u.userinfo
    /\ u.host # NoHost /\ permits(u.host)
    /\ u.scheme = "https" \/ (u.scheme = "http" /\ u.host \in PrivateHosts)

checkMediaType(t) == AllowTypes = {} \/ t \in AllowTypes

\* The labels of the fetch metric, in the order Reason looks for their words.
Labels ==
    <<"rejected_url", "denied_address", "redirect", "oversize", "media_type", "http_status">>

\* Reason looks for words in the text of the error, which quotes the URL when
\* the request itself failed or a status was refused.
Reason(e) ==
    IF e.cause \in {"none", "timeout"} THEN e.cause
    ELSE LET said == {n \in 1..Len(Labels) : Labels[n] \in e.says}
         IN  IF said = {} THEN "other" ELSE Labels[CHOOSE n \in said : \A m \in said : n <= m]

-----------------------------------------------------------------------------
(* The loop of Fetch                                                        *)

FetchInit ==
    /\ expired = FALSE
    /\ fetchPc = "idle" /\ attempt = 0
    /\ file = NoFile /\ spent = FALSE
    /\ fetchErr = NoError /\ origin = "none"

FetchReturns(e) ==
    /\ fetchPc' = "done"
    /\ fetchErr' = e

\* The closure Fetch hands to its caller: removes the file once.
Cleanup == file' = IF spent THEN file ELSE NoFile

\* cleanup, and a fresh sync.Once for the next attempt.
DiscardForGood == Cleanup /\ spent' = TRUE
Discard == Cleanup /\ spent' = FALSE

OneMoreAttempt == attempt <= MaxFetches
AttemptsLeft == attempt < MaxFetches

\* An attempt fails: terminal errors end the loop, so does the context.
AttemptFails(e) ==
    /\ Discard
    /\ CASE ~e.retryable -> FetchReturns(e)
         [] e.retryable /\ expired -> FetchReturns(ContextEnded)
         [] e.retryable /\ ~expired /\ AttemptsLeft ->
              fetchPc' = "backoff" /\ fetchErr' = fetchErr
         [] OTHER -> FetchReturns(e)
    /\ UNCHANGED attempt

Terminal(cause, words) == [cause |-> cause, retryable |-> FALSE, says |-> words]
Again(cause, words) == [cause |-> cause, retryable |-> TRUE, says |-> words]

BeginFetch(u) ==
    /\ fetchPc = "idle"
    /\ IF validateURL(u)
       THEN /\ attempt' = 1 /\ fetchPc' = "get"
            /\ UNCHANGED fetchErr
       ELSE FetchReturns(Terminal("rejected_url", {"rejected_url"})) /\ UNCHANGED attempt
    /\ UNCHANGED <<expired, file, spent, origin>>

\* client.Do: the address is refused or redirected, the transport fails, or
\* a status other than 200 comes back (its Retry-After wait ends or the
\* context does), or a type not allowed.
GetFails(u) ==
    /\ fetchPc = "get"
    /\ \/ \E a \in Denied(u.host) :
             AttemptFails(Terminal("denied_address",
                                   u.words \cup (IF a = "imds6" THEN {} ELSE {"denied_address"})))
       \/ AttemptFails(Terminal("redirect", u.words \cup {"redirect"}))
       \/ AttemptFails(Again("transport", u.words))
       \/ AttemptFails(Terminal("http_status", u.words \cup {"http_status"}))
       \/ AttemptFails(Again("http_status", u.words \cup {"http_status"}))
       \/ \E t \in MediaTypes :
             ~checkMediaType(t) /\ AttemptFails(Terminal("media_type", {"media_type"}))
       \/ AttemptFails(Terminal("create", {}))
    /\ UNCHANGED <<expired, origin>>

\* 200, a type that is allowed, and the file opened: created or truncated.
GetAnswered(u) ==
    /\ fetchPc = "get" /\ ~expired
    /\ \E t \in MediaTypes : checkMediaType(t)
    /\ origin' \in Addresses \ Denied(u.host)
    /\ file' = [bytes |-> 0, state |-> "partial"]
    /\ fetchPc' = "body"
    /\ UNCHANGED <<expired, attempt, spent, fetchErr>>

\* io.Copy reads one byte more than the cap: enough to tell.
BodyArrives ==
    /\ fetchPc = "body" /\ file.state = "partial"
    /\ \E n \in 0..(MaxBytes + 1) : \E whole \in BOOLEAN :
          file' = [bytes |-> n, state |-> IF whole THEN "copied" ELSE "broken"]
    /\ UNCHANGED <<expired, fetchPc, attempt, spent, fetchErr, origin>>

\* What attempt makes of what it copied, the error of Close included.
TooLarge == file.bytes > MaxBytes

BodyRefused ==
    /\ fetchPc = "body"
    /\ \/ file.state = "broken" /\ AttemptFails(Again("transport", {}))
       \/ file.state = "copied" /\ TooLarge /\ AttemptFails(Terminal("oversize", {"oversize"}))
       \/ file.state = "copied" /\ ~TooLarge /\ AttemptFails(Again("close", {}))
    /\ UNCHANGED <<expired, origin>>

BodyTaken ==
    /\ fetchPc = "body"
    /\ file.state = "copied" /\ ~TooLarge
    /\ FetchReturns(NoError)
    /\ UNCHANGED <<expired, attempt, file, spent, origin>>

\* The wait between attempts ends, or the context does.
BackoffOver ==
    /\ fetchPc = "backoff"
    /\ IF expired
       THEN FetchReturns(ContextEnded)
            /\ UNCHANGED attempt
       ELSE /\ fetchPc' = "get" /\ attempt' = attempt + 1
            /\ UNCHANGED fetchErr
    /\ UNCHANGED <<expired, file, spent, origin>>

FetchStep(u) ==
    \/ BeginFetch(u)
    \/ GetFails(u) \/ GetAnswered(u)
    \/ BodyArrives \/ BodyRefused \/ BodyTaken
    \/ BackoffOver
=============================================================================
