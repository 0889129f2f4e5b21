----------------------------- MODULE MCConnectors -----------------------------
(***************************************************************************)
(* Three messages: two that may start one thread at the same time, and one   *)
(* of another account in private.  U1 is in the configuration as ann; U2 is  *)
(* nobody known.  The conversation may be bound to the group ops.           *)
(***************************************************************************)
EXTENDS Connectors, TLC

CONSTANTS ann, bob, g1, g2, U1, U2, C, D, chanC, chanD, ops

MCSaid ==
    1 :> [account |-> U1, chat |-> C, private |-> FALSE, addressed |-> TRUE, root |-> Top, ours |-> FALSE]
 @@ 2 :> [account |-> U2, chat |-> C, private |-> FALSE, addressed |-> TRUE, root |-> Top, ours |-> FALSE]
 @@ 3 :> [account |-> U2, chat |-> D, private |-> TRUE, addressed |-> FALSE, root |-> Top, ours |-> FALSE]
MCGuestOf == U1 :> g1 @@ U2 :> g2
MCDerivedOf == C :> chanC @@ D :> chanD
MCConfiguredAs == U1 :> ann
MCReplies == {<<2, 2, 1>>}
MCBindable == {GroupScope(ops)}

\* Deployments: the default transport with its tokens in the environment, a file
\* that asks for the Events API, one that an older version left with Telegram
\* alone; and three that start no connector.
Conf == INSTANCE Configuration
Deployment(file, env) == [file |-> file, env |-> env]
MCDeployments ==
    {Deployment(Conf!Missing, [QM_SLACK_BOT_TOKEN |-> "xoxb", QM_SLACK_APP_TOKEN |-> "xapp"]),
     Deployment(Conf!Toml([slack |-> [enabled |-> TRUE, mode |-> "events", bot_token |-> "xoxb",
                                   signing_secret_env |-> "SECRET"]]), [SECRET |-> "s"]),
     Deployment(Conf!Toml([telegram |-> [enabled |-> TRUE, bot_token |-> "t"]]), <<>>),
     Deployment(Conf!Toml([telegram |-> [bot_token |-> "t"]]), <<>>),
     Deployment(Conf!Toml([slack |-> [enabled |-> TRUE, bot_token |-> "xoxb"]]), <<>>),
     Deployment(Conf!Unparsable, [QM_SLACK_BOT_TOKEN |-> "", QM_SLACK_APP_TOKEN |-> "xapp"])}
MCTransports ==
    UNION {Conf!Connectors(Conf!Loaded(d.file, d.env), d.env) : d \in MCDeployments}
=============================================================================
