------------------------------ MODULE MCSignIn ------------------------------
(* One address, whose first candidate may be taken by the time it is asked for. *)
EXTENDS SignIn, TLC

\* What [auth] says: the limits, and a domain that lets ada in and not eve.
Conf == INSTANCE Configuration
MCAuth ==
    Conf!Loaded(Conf!Toml([auth |-> [allowed_domains |-> {"acme.test"}, membership_mode |-> "allowlist",
                               login_token_ttl_secs |-> 2, session_ttl_secs |-> 2,
                               request_window_secs |-> 2, max_requests_per_window |-> 1]]),
             [QM_ADMIN_EMAIL |-> "root@acme.test"]).auth
\* A link reaches an inbox, also where the file still has its [email] in [auth].
OldFile == Conf!Toml([auth |-> [email_mode |-> "resend", email_api_key |-> "re_1"]])
MailEnvironment == [QM_EMAIL_FROM |-> "qm@acme.test"]
ASSUME MailAssumption ==
    /\ Conf!LinkGoesTo(Conf!Loaded(OldFile, MailEnvironment), MailEnvironment) = "inbox"
    /\ Conf!LinkGoesTo(Conf!Loaded(OldFile, <<>>), <<>>) = "nobody"
    /\ Conf!LinkGoesTo(Conf!Loaded(Conf!Unparsable, MailEnvironment), MailEnvironment) = "log"

MCPeople ==
    {[text |-> "ada@acme.test", local |-> "ada", domain |-> "acme.test", dotted |-> TRUE],
     [text |-> "eve@other.test", local |-> "eve", domain |-> "other.test", dotted |-> TRUE]}
MCAddresses == {"ada@acme.test"}
MCAllowed == {a.text : a \in {p \in MCPeople : Conf!EmailAllowed(MCAuth, p)}}
MCLinkTtl == MCAuth.login_token_ttl_secs
MCSessionTtl == MCAuth.session_ttl_secs
MCWindow == MCAuth.request_window_secs
MCMaxRequests == MCAuth.max_requests_per_window

MCCandidates == [a \in Addresses |-> <<"ada", "ada-2">>]
Symmetry == Permutations(Requests)
=============================================================================
