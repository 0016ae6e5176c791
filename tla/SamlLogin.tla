------------------------------ MODULE SamlLogin ------------------------------
(***************************************************************************)
(* SAMLAuthenticator.Authenticate (internal/auth/saml.go): a callback      *)
(* server on the fixed loopback port, the browser that is sent to the      *)
(* gateway, and the select that waits for the callback, for the end of the *)
(* server and for the timeout, each of which may come at any moment.       *)
(*                                                                         *)
(* A request stands for the id that it carries.                            *)
(***************************************************************************)
EXTENDS Naturals, Sequences

CONSTANT Requests   \* the connections made to the callback port

VARIABLES
    ctx,        \* the context of the login is done
    pc,         \* where Authenticate stands
    listener,   \* the callback port
    serving,    \* the goroutine that runs Server.Serve
    stopping,   \* Server.Shutdown has been called
    served,     \* serveResult
    result,     \* the channel of ids, of capacity 1
    request,    \* where each request stands, and how it was answered
    unread,     \* requests whose announced body has not come
    used,       \* the id presented to the gateway
    outcome,    \* what Authenticate returns
    accepted    \* ghost: the ids sent to the channel, in order

server == <<listener, serving, stopping, served>>
callbacks == <<result, request, unread, accepted>>
vars == <<ctx, pc, server, callbacks, used, outcome>>

Nobody == "nobody"

SamlTypeOK ==
    /\ ctx \in BOOLEAN
    /\ pc \in {"listen", "open", "select", "auth", "shutdown", "drain", "wait", "returned"}
    /\ listener \in {"none", "open", "closed"}
    /\ serving \in {"off", "starting", "on", "ended"}
    /\ stopping \in BOOLEAN
    /\ served \in {"none", "error", "closed"}
    /\ result \in Seq(Requests) /\ Len(result) <= 1
    /\ request \in [Requests -> {"off", "open", "deliver", "rejected", "complete",
                               "conflict", "dropped"}]
    /\ unread \subseteq Requests
    /\ used \in Requests \cup {Nobody}
    /\ outcome \in {"none", "session", "error"}
    /\ accepted \in Seq(Requests)

SamlInit ==
    /\ ctx = FALSE
    /\ pc = "listen"
    /\ listener = "none"
    /\ serving = "off"
    /\ stopping = FALSE
    /\ served = "none"
    /\ result = <<>>
    /\ request = [r \in Requests |-> "off"]
    /\ unread = {}
    /\ used = Nobody
    /\ outcome = "none"
    /\ accepted = <<>>

Expire ==
    /\ ~ctx
    /\ ctx' = TRUE
    /\ UNCHANGED <<pc, server, callbacks, used, outcome>>

-----------------------------------------------------------------------------
(* The callback server *)

\* Serve may be scheduled after Shutdown; it then returns at once.
ServeStarts ==
    /\ serving = "starting"
    /\ ~stopping
    /\ serving' = "on"
    /\ UNCHANGED <<ctx, pc, listener, stopping, served, callbacks, used, outcome>>

\* Serve returns, closing the listener: its result goes to a channel with room
\* for it, and serveDone is closed.
ServeEnds ==
    /\ serving \in {"starting", "on"}
    /\ served' = IF stopping THEN "closed" ELSE "error"
    /\ serving' = "ended"
    /\ listener' = "closed"
    /\ UNCHANGED <<ctx, pc, stopping, callbacks, used, outcome>>

Arrive(r) ==
    /\ serving = "on"
    /\ ~stopping
    /\ request[r] = "off"
    /\ request' = [request EXCEPT ![r] = "open"]
    /\ UNCHANGED <<ctx, pc, server, result, unread, accepted, used, outcome>>

\* What keeps Shutdown waiting: a request that awaits its header (open) or its
\* handler's send (deliver); or one of which the server, before the answer of the
\* handler is sent, discards a body that has not come.
Active(r) == request[r] \in {"open", "deliver"} \/ r \in unread

Answer(r, from, status) ==
    /\ request[r] = from
    /\ request' = [request EXCEPT ![r] = status]
    /\ UNCHANGED <<ctx, pc, server, used, outcome>>

\* An id is delivered; another method or path, no id or one that is too long is
\* rejected; a header that has not come within five seconds ends the connection.
\* A header that has come may announce a body, which no handler reads.
Receive(r) ==
    /\ \/ /\ \E status \in {"deliver", "rejected"} : Answer(r, "open", status)
          /\ unread' \in {unread, unread \cup {r}}
       \/ Answer(r, "open", "dropped") /\ UNCHANGED unread
    /\ UNCHANGED <<result, accepted>>

\* The body comes, or its sender goes away.  ReadHeaderTimeout is over with the
\* header: nothing else ends the wait.
BodyEnds(r) ==
    /\ r \in unread
    /\ unread' = unread \ {r}
    /\ UNCHANGED <<ctx, pc, server, result, request, accepted, used, outcome>>

\* The buffer takes the id although it is not empty.
AcceptMut(r) ==
    /\ result' = Append(result, r)
    /\ accepted' = Append(accepted, r)
    /\ UNCHANGED unread
    /\ Answer(r, "deliver", "complete")

\* A later id takes the place of the one that waits.
AcceptLatestMut(r) ==
    /\ result' = <<r>>
    /\ accepted' = Append(accepted, r)
    /\ UNCHANGED unread
    /\ Answer(r, "deliver", "complete")

Accept(r) ==
    /\ result = <<>>
    /\ result' = <<r>>
    /\ accepted' = Append(accepted, r)
    /\ UNCHANGED unread
    /\ Answer(r, "deliver", "complete")

\* As if the select of the handler had no default: it waits for room.
ConflictMut(r) == result # <<>> /\ request[r] = "deliver" /\ UNCHANGED vars

Conflict(r) ==
    /\ result # <<>>
    /\ Answer(r, "deliver", "conflict")
    /\ UNCHANGED <<result, unread, accepted>>

-----------------------------------------------------------------------------
(* Authenticate *)

Go(place) == pc' = place

ListenFails ==
    /\ pc = "listen"
    /\ Go("returned")
    /\ outcome' = "error"
    /\ UNCHANGED <<ctx, server, callbacks, used>>

Listen ==
    /\ pc = "listen"
    /\ Go("open")
    /\ listener' = "open"
    /\ serving' = "starting"
    /\ UNCHANGED <<ctx, stopping, served, callbacks, used, outcome>>

OpenBrowser ==
    /\ pc = "open"
    /\ \/ Go("select") /\ UNCHANGED outcome
       \/ Go("shutdown") /\ outcome' = "error"
    /\ UNCHANGED <<ctx, server, callbacks, used>>

\* Of the cases that are ready the select takes any.
SelectId ==
    /\ pc = "select"
    /\ result # <<>>
    /\ used' = Head(result)
    /\ result' = Tail(result)
    /\ Go("auth")
    /\ UNCHANGED <<ctx, server, request, unread, accepted, outcome>>

SelectEnd ==
    /\ pc = "select"
    /\ ctx \/ served # "none"
    /\ outcome' = "error"
    /\ Go("shutdown")
    /\ UNCHANGED <<ctx, server, callbacks, used>>

\* AuthenticateSAML, under the context of the login.
Authenticates ==
    /\ pc = "auth"
    /\ \/ ~ctx /\ outcome' = "session"
       \/ outcome' = "error"
    /\ Go("shutdown")
    /\ UNCHANGED <<ctx, server, callbacks, used>>

\* The deferred calls: Shutdown closes the listener and waits, under a context that
\* never ends, until no request is active; then Authenticate waits for the goroutine.
Shutdown ==
    /\ pc = "shutdown"
    /\ stopping' = TRUE
    /\ listener' = "closed"
    /\ Go("drain")
    /\ UNCHANGED <<ctx, serving, served, callbacks, used, outcome>>

DrainedMut ==
    /\ pc = "drain"
    /\ Go("wait")
    /\ UNCHANGED <<ctx, server, callbacks, used, outcome>>

Drained ==
    /\ pc = "drain"
    /\ \A r \in Requests : ~Active(r)
    /\ Go("wait")
    /\ UNCHANGED <<ctx, server, callbacks, used, outcome>>

Returns ==
    /\ pc = "wait"
    /\ serving = "ended"
    /\ Go("returned")
    /\ UNCHANGED <<ctx, server, callbacks, used, outcome>>

-----------------------------------------------------------------------------
(* The specification *)

Authenticate ==
    \/ ListenFails \/ Listen \/ OpenBrowser \/ SelectId \/ SelectEnd
    \/ Authenticates \/ Shutdown \/ Drained \/ Returns

Deliver(r) == Accept(r) \/ Conflict(r)

SamlNext ==
    \/ Expire \/ ServeStarts \/ ServeEnds \/ Authenticate
    \/ \E r \in Requests : Arrive(r) \/ Receive(r) \/ BodyEnds(r) \/ Deliver(r)
    \/ pc = "returned" /\ UNCHANGED vars

-----------------------------------------------------------------------------
(* Properties *)

\* Whatever ended the login, when Authenticate returns the fixed port is free
\* for the next attempt and nothing of the server is at work.
PortReleased ==
    pc = "returned" =>
        /\ listener # "open"
        /\ serving \in {"off", "ended"}
        /\ \A r \in Requests : ~Active(r)

\* However callbacks race, the id presented to the gateway is the first that
\* any of them delivered, and a callback that was turned away is never used.
FirstCallbackWins == used # Nobody => used = accepted[1] /\ request[used] = "complete"

\* A timeout, a server that stops, or a callback ends the login, with requests
\* that are still open and others that nobody will ever read.  The one thing that
\* can keep it for ever is Shutdown, which has no deadline, while the announced
\* body of a request does not come.
LoginEnds ==
    (ctx \/ served # "none" \/ accepted # <<>>) ~>
        (pc = "returned" \/ [](pc = "drain" /\ unread # {}))

=============================================================================
