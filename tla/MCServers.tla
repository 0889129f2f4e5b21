------------------------------ MODULE MCServers ------------------------------
(***************************************************************************)
(* Two processes, an administrator ada and a person bob, a group, two skills  *)
(* that may have one name.                                                  *)
(***************************************************************************)
EXTENDS Servers, TLC

CONSTANTS ada, bob, ops, k1

\* The file names the administrator; the bootstrap key is in the environment.
Conf == INSTANCE Configuration
MCEnvironment == [QM_BOOTSTRAP_API_KEY |-> k1]
MCConfiguration == Conf!Loaded(Conf!Toml([org |-> [admin |-> ada]]), MCEnvironment)
MCAdmin == MCConfiguration.org.admin
MCBootstrapKey == Conf!ResolveBootstrapKey(MCConfiguration, MCEnvironment)
=============================================================================
