---------------------------- MODULE Configuration ----------------------------
(***************************************************************************)
(* What a process reads when it starts: config.toml and the environment, as  *)
(* config.rs makes one configuration of them, and what main.rs, the clients  *)
(* of the connectors and auth/mod.rs decide by it.                           *)
(*                                                                          *)
(* The text of a file is "missing", "unparsable" or "toml" with sections, a   *)
(* section the settings it gives; an environment gives the variables that     *)
(* are set.  Texts are taken trimmed and in lower case where the code compares *)
(* them so, and "" is the blank text, which most settings treat as absent.    *)
(***************************************************************************)
EXTENDS TLC

Absent == "absent"      \* None, where the blank text is something else
Missing == [text |-> "missing"]
Unparsable == [text |-> "unparsable"]
Toml(sections) == [text |-> "toml", sections |-> sections]

-----------------------------------------------------------------------------
(* The sections and their defaults *)

EmailDefaults ==
    [mode |-> "console", api_key |-> "", api_key_env |-> "QM_EMAIL_API_KEY", from_address |-> ""]

AuthDefaults ==
    [public_url |-> "http://127.0.0.1:8080", membership_mode |-> "allowlist", admin_email |-> "",
     allowed_emails |-> {}, allowed_domains |-> {},
     email_mode |-> Absent, email_api_key |-> Absent, email_api_key_env |-> Absent,
     from_address |-> Absent,
     login_token_ttl_secs |-> 900, session_ttl_secs |-> 1209600,
     max_requests_per_window |-> 5, request_window_secs |-> 600, bootstrap_api_key |-> ""]

SlackDefaults ==
    [enabled |-> FALSE, mode |-> "socket",
     bot_token |-> "", bot_token_env |-> "QM_SLACK_BOT_TOKEN",
     app_token |-> "", app_token_env |-> "QM_SLACK_APP_TOKEN",
     signing_secret |-> "", signing_secret_env |-> "QM_SLACK_SIGNING_SECRET",
     allowed_channels |-> {}, principals |-> <<>>]

OrgDefaults == [id |-> "local", security_posture |-> "auto", admin |-> "admin"]

HarnessDefaults ==
    [kind |-> "mock", endpoint |-> "", api_key |-> "", api_key_env |-> "QM_HARNESS_API_KEY",
     max_steps |-> 24]

CronDefaults == [enabled |-> TRUE, default_timezone |-> "UTC", max_catchup_secs |-> 3600]

TelegramDefaults ==
    [enabled |-> FALSE, bot_token |-> "", bot_token_env |-> "QM_TELEGRAM_BOT_TOKEN",
     allowed_chat_ids |-> {}, principals |-> <<>>]

MemoryDefaults == [recall |-> "visible", capture |-> "writable"]

PluginsDefaults == [turn_middleware |-> <<>>, screener |-> ""]

Defaults ==
    [email |-> EmailDefaults, auth |-> AuthDefaults, slack |-> SlackDefaults, org |-> OrgDefaults,
     harness |-> HarnessDefaults, cron |-> CronDefaults, telegram |-> TelegramDefaults,
     plugins |-> PluginsDefaults, memory |-> MemoryDefaults]

-----------------------------------------------------------------------------
(* Config::load *)

\* A file that is missing or cannot be parsed counts as one that says nothing.
Sections(file) == IF file.text = "toml" THEN file.sections ELSE <<>>
Read(file) ==
    [s \in DOMAIN Defaults |->
        IF s \in DOMAIN Sections(file) THEN Sections(file)[s] @@ Defaults[s] ELSE Defaults[s]]

\* `migrate_legacy_email`: what an older file says in [auth], where [email] is
\* as by default.
MigrateLegacyEmail(cfg) ==
    LET Moved(key, legacy) ==
            IF cfg.auth[legacy] # Absent /\ cfg.email[key] = EmailDefaults[key]
            THEN cfg.auth[legacy]
            ELSE cfg.email[key]
    IN  [cfg EXCEPT !.email = [mode |-> Moved("mode", "email_mode"),
                               api_key |-> Moved("api_key", "email_api_key"),
                               api_key_env |-> Moved("api_key_env", "email_api_key_env"),
                               from_address |-> Moved("from_address", "from_address")]]

\* `apply_env_overrides`: a variable that is set wins, blank or not; the token
\* of a connector turns it on.
ApplyEnvOverrides(cfg, env) ==
    LET Over(value, var) == IF var \in DOMAIN env THEN env[var] ELSE value
        On(enabled, var) == enabled \/ var \in DOMAIN env
    IN  [cfg EXCEPT !.harness.kind = Over(@, "QM_HARNESS_KIND"),
                    !.harness.endpoint = Over(@, "QM_HARNESS_ENDPOINT"),
                    !.harness.api_key = Over(@, "QM_HARNESS_API_KEY"),
                    !.org.security_posture = Over(@, "QM_SECURITY_POSTURE"),
                    !.telegram.bot_token = Over(@, "QM_TELEGRAM_BOT_TOKEN"),
                    !.telegram.enabled = On(@, "QM_TELEGRAM_BOT_TOKEN"),
                    !.slack.bot_token = Over(@, "QM_SLACK_BOT_TOKEN"),
                    !.slack.enabled = On(@, "QM_SLACK_BOT_TOKEN"),
                    !.slack.app_token = Over(@, "QM_SLACK_APP_TOKEN"),
                    !.slack.signing_secret = Over(@, "QM_SLACK_SIGNING_SECRET"),
                    !.auth.public_url = Over(@, "QM_PUBLIC_URL"),
                    !.auth.admin_email = Over(@, "QM_ADMIN_EMAIL"),
                    !.email.api_key = Over(@, "QM_EMAIL_API_KEY"),
                    !.email.from_address = Over(@, "QM_EMAIL_FROM")]

Loaded(file, env) == ApplyEnvOverrides(MigrateLegacyEmail(Read(file)), env)

-----------------------------------------------------------------------------
(* What is decided by it *)

\* `resolve`: the file's value unless it is blank, then the variable it names.
Resolved(value, env, var) ==
    IF value # "" THEN value ELSE IF var \in DOMAIN env THEN env[var] ELSE ""

\* The connectors main.rs starts: a token is needed, and Slack needs another
\* one for its transport.  What is misconfigured is left out.
SlackTransport(cfg) == IF cfg.slack.mode = "events" THEN "events" ELSE "socket"
SlackClient(cfg, env) ==
    LET bot == Resolved(cfg.slack.bot_token, env, cfg.slack.bot_token_env)
        app == Resolved(cfg.slack.app_token, env, cfg.slack.app_token_env)
        secret == Resolved(cfg.slack.signing_secret, env, cfg.slack.signing_secret_env)
    IN  {t \in {SlackTransport(cfg)} :
            cfg.slack.enabled /\ bot # "" /\ (IF t = "socket" THEN app # "" ELSE secret # "")}

TelegramClient(cfg, env) ==
    {t \in {"telegram"} :
        cfg.telegram.enabled /\ Resolved(cfg.telegram.bot_token, env, cfg.telegram.bot_token_env) # ""}

Connectors(cfg, env) == TelegramClient(cfg, env) \cup SlackClient(cfg, env)

\* `build_harness`: a kind nobody knows, or no endpoint, leaves the mock.
HarnessOf(cfg) ==
    IF cfg.harness.kind \in {"openai", "openai-compatible", "gateway"} /\ cfg.harness.endpoint # ""
    THEN "openai"
    ELSE "mock"

\* `email_allowed`.  An address is [text, local, domain, dotted], the last saying
\* whether the domain has a dot.  The membership mode is not looked at.
EmailAllowed(auth, address) ==
    /\ address.local # "" /\ address.dotted
    /\ \/ address.text = auth.admin_email
       \/ address.text \in auth.allowed_emails
       \/ address.domain \in auth.allowed_domains

\* `sends_mail`, and whether a link that is asked for reaches its address: it
\* is logged instead when no mail is sent, and lost without a sender.
SendsMail(cfg, env) ==
    cfg.email.mode = "resend" /\ Resolved(cfg.email.api_key, env, cfg.email.api_key_env) # ""
LinkGoesTo(cfg, env) ==
    IF ~SendsMail(cfg, env) THEN "log"
    ELSE IF cfg.email.from_address = "" THEN "nobody"
    ELSE "inbox"

ResolveBootstrapKey(cfg, env) == Resolved(cfg.auth.bootstrap_api_key, env, "QM_BOOTSTRAP_API_KEY")
=============================================================================
