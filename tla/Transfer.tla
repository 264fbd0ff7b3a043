------------------------------ MODULE Transfer ------------------------------
(***************************************************************************)
(* One transfer of an artifact: where the transport asks for it, what it   *)
(* writes into the staging file while it verifies the stream, and what it  *)
(* tells the store.  The server answers what it likes.                     *)
(*                                                                         *)
(* Bytes are sequences of letters, and a digest is the bytes themselves.   *)
(***************************************************************************)
EXTENDS Naturals, Sequences

CONSTANTS
    Urls,         \* what may be asked for, or redirected to
    Sources,      \* what callers ask to be transferred
    Letters,
    MaxBytes,     \* bound: letters a server sends
    Limit,        \* the transfer bound of a source without a digest
    MaxRedirects, \* 8
    None,
    Malformed     \* the text of a digest that is none

VARIABLES
    source,
    at,
    url,       \* what is being asked for
    asked,     \* everything that was
    hops,
    promised,  \* the length the server declares, or None
    verified,  \* what went through the verifier
    staging,   \* the staging file
    answer,
    stuck      \* has the removal of a staging file failed?

vars == <<source, at, url, asked, hops, promised, verified, staging, answer, stuck>>

-----------------------------------------------------------------------------
(* Addresses *)

LoopbackHttp(u) == u.scheme = "http" /\ u.host = "loopback"

\* mrpack_allowed_url: the hosts of the format, at their default port.
PackHost(u) ==
    /\ u.scheme = "https" /\ ~u.credentials /\ ~u.port
    /\ u.host = "pack"

\* validate_transport_url, under the policy that admits a loopback server.
Admitted(u) ==
    /\ u.host # None /\ ~u.credentials
    /\ u.scheme = "https" \/ LoopbackHttp(u)

\* parse: a digest is of its length and alphabet.
Parsed(digest) == digest # Malformed

\* build: of the kinds of source.
BuiltExact(s) == Admitted(s.url) /\ s.size # 0 /\ Parsed(s.digest)
BuiltPack(s) == BuiltExact(s) /\ PackHost(s.url)
BuiltObserved(s) == Admitted(s.url)

Built(s) ==
    \/ s.kind = "digest" /\ BuiltExact(s)
    \/ s.kind = "pack" /\ BuiltPack(s)
    \/ s.kind = "observed" /\ BuiltObserved(s)

\* decide_redirect: within the limit, and no less secure than what was asked
\* for at first.
Follows(candidate) ==
    /\ hops < MaxRedirects
    /\ \/ candidate.scheme = "https"
       \/ source.url.scheme = "http" /\ LoopbackHttp(candidate)

-----------------------------------------------------------------------------
(* The request *)

Ends(result) == at' = "done" /\ answer' = result

Begin ==
    /\ at = "idle"
    /\ \/ /\ Built(source)
          /\ at' = "asking" /\ url' = source.url /\ asked' = {source.url}
          /\ UNCHANGED answer
       \/ ~Built(source) /\ Ends("invalid") /\ UNCHANGED <<url, asked>>
    /\ UNCHANGED <<source, hops, promised, verified, staging, stuck>>

\* A redirect off the hosts of a pack is not followed, and its status is no
\* success; one that the policy refuses is an error.
Redirected ==
    /\ at = "asking"
    /\ \E candidate \in Urls :
        \/ /\ source.kind = "pack" => PackHost(candidate)
           /\ Follows(candidate)
           /\ url' = candidate /\ asked' = asked \cup {candidate} /\ hops' = hops + 1
           /\ UNCHANGED <<at, answer>>
        \/ /\ source.kind = "pack" /\ ~PackHost(candidate)
           /\ Ends("status") /\ UNCHANGED <<url, asked, hops>>
        \/ /\ source.kind = "pack" => PackHost(candidate)
           /\ ~Follows(candidate)
           /\ Ends("redirect") /\ UNCHANGED <<url, asked, hops>>
    /\ UNCHANGED <<source, promised, verified, staging, stuck>>

\* check_declared_length; without a digest only what exceeds the bound.
LengthAgrees(declared) ==
    declared # None =>
        IF source.kind = "observed" THEN declared <= Limit ELSE source.size \in {None, declared}

\* The response, and the creation of the staging file.
Answered ==
    /\ at = "asking"
    /\ \E declared \in 0 .. MaxBytes \cup {None} :
        \/ Ends("status") /\ UNCHANGED <<promised, staging>>
        \/ /\ ~LengthAgrees(declared)
           /\ Ends("size") /\ UNCHANGED <<promised, staging>>
        \/ /\ LengthAgrees(declared)
           /\ promised' = declared /\ staging' = <<>> /\ at' = "streaming"
           /\ UNCHANGED answer
        \/ /\ LengthAgrees(declared)
           /\ Ends("io") /\ UNCHANGED <<promised, staging>>
    /\ UNCHANGED <<source, url, asked, hops, verified, stuck>>

\* The host is not reached, or not in time.
Unreached ==
    /\ at = "asking" /\ Ends("network")
    /\ UNCHANGED <<source, url, asked, hops, promised, verified, staging, stuck>>

-----------------------------------------------------------------------------
(* The stream *)

\* A failure removes the staging file; whether that works is not looked at.
Abandon(reason) ==
    /\ Ends(reason)
    /\ \/ staging' = None /\ UNCHANGED stuck
       \/ stuck' = TRUE /\ UNCHANGED staging

\* StreamingVerifier::update: no more than was expected.
Fits(length) ==
    /\ source.size # None => length <= source.size
    /\ source.kind = "observed" => length <= Limit

\* A letter arrives; of a declared length no more do than it.
Chunk ==
    /\ at = "streaming" /\ Len(verified) < MaxBytes
    /\ promised # None => Len(verified) < promised
    /\ \E letter \in Letters :
        LET grown == Append(verified, letter)
        IN  \/ /\ Fits(Len(grown))
               /\ verified' = grown /\ staging' = grown
               /\ UNCHANGED <<at, answer, stuck>>
            \/ ~Fits(Len(grown)) /\ Abandon("size") /\ UNCHANGED verified
            \/ Fits(Len(grown)) /\ verified' = grown /\ Abandon("io")
    /\ UNCHANGED <<source, url, asked, hops, promised>>

\* The connection breaks, is idle for too long, or ends before its length.
Broken ==
    /\ at = "streaming" /\ Abandon("network")
    /\ UNCHANGED <<source, url, asked, hops, promised, verified>>

Received == at = "streaming" /\ promised \in {None, Len(verified)}

Passes == Ends("ok") /\ UNCHANGED <<staging, stuck>>

\* Mutant: what was received is not measured.
FinishUnmeasured ==
    /\ Received /\ source.kind # "observed"
    /\ Passes
    /\ UNCHANGED <<source, url, asked, hops, promised, verified>>

\* StreamingVerifier::finish: the size, then the digest.
Finish ==
    /\ Received /\ source.kind # "observed"
    /\ LET sized == source.size \in {None, Len(verified)}
       IN  \/ sized /\ source.digest = verified /\ Passes
           \/ ~sized /\ Abandon("size")
           \/ sized /\ source.digest # verified /\ Abandon("digest")
           \/ Abandon("io")
    /\ UNCHANGED <<source, url, asked, hops, promised, verified>>

\* finish_observed: compared with what was observed of this address before.
FinishObserved ==
    /\ Received /\ source.kind = "observed"
    /\ \/ source.digest \in {None, verified} /\ Passes
       \/ source.digest \notin {None, verified} /\ Abandon("drift")
       \/ Abandon("io")
    /\ UNCHANGED <<source, url, asked, hops, promised, verified>>

Init ==
    /\ source \in Sources
    /\ at = "idle" /\ url = None /\ asked = {} /\ hops = 0 /\ promised = None
    /\ verified = <<>> /\ staging = None /\ answer = None /\ stuck = FALSE

Next ==
    \/ Begin \/ Redirected \/ Answered \/ Unreached
    \/ Chunk \/ Broken \/ Finish \/ FinishObserved

Spec == Init /\ [][Next]_vars

-----------------------------------------------------------------------------
(* Properties *)

\* The state is of this shape.
TypeOK ==
    /\ source \in Sources /\ at \in {"idle", "asking", "streaming", "done"}
    /\ asked \subseteq Urls /\ hops \in 0 .. MaxRedirects
    /\ answer # None <=> at = "done"

\* The staging file that is handed to the store holds exactly the bytes that
\* were expected, or of an address without a digest those it served before; and
\* a failed transfer leaves no file.
VerifiedOrGone ==
    /\ answer = "ok" =>
        /\ staging = verified
        /\ source.digest \in {None, staging} /\ source.size \in {None, Len(staging)}
        /\ source.kind = "observed" => Len(staging) <= Limit
    /\ at = "done" /\ answer # "ok" => staging = None \/ stuck

\* A secure address is never left for an insecure one, whatever redirects a
\* server gives and however many hops lie between; a pack is never fetched from
\* other hosts than its format allows; the local server of the tests is the
\* only one asked in cleartext.
StaysSecure ==
    \A u \in asked :
        /\ source.url.scheme = "https" => u.scheme = "https"
        /\ u.scheme = "https" \/ LoopbackHttp(u)
        /\ source.kind = "pack" => PackHost(u)
=============================================================================
