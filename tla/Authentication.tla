--------------------------- MODULE Authentication ---------------------------
(***************************************************************************)
(* A command up to the point at which it is authenticated: what it is to   *)
(* authenticate with (PasswordEntry), and, without a password, the login   *)
(* in a browser (SamlLogin).  The login with a password is a request to    *)
(* the gateway, which is in Fortinet.                                      *)
(***************************************************************************)
EXTENDS SamlLogin, PasswordEntry

\* vars is SamlLogin's.
authVars == <<vars, entryVars>>

AuthInit == SamlInit /\ EntryInit

AuthNext ==
    \/ EntryNext /\ UNCHANGED vars
    \/ entry = "saml" /\ SamlNext /\ UNCHANGED entryVars
    \/ entry \in Ended \ {"saml"} /\ UNCHANGED authVars

OfSaml(action) == entry = "saml" /\ action /\ UNCHANGED entryVars

\* The header timeout bounds Receive, the default of the select Deliver; nothing
\* bounds the body of a request (BodyEnds).  Nothing makes Serve end but Shutdown.
\* The launcher of the browser returns.  Nothing is assumed of who types.
AuthFairness ==
    /\ WF_authVars(OfSaml(Authenticate))
    /\ WF_authVars(OfSaml(ServeEnds /\ stopping))
    /\ \A r \in Requests : WF_authVars(OfSaml(Receive(r))) /\ WF_authVars(OfSaml(Deliver(r)))

AuthSpec == AuthInit /\ [][AuthNext]_authVars /\ AuthFairness

=============================================================================
