-------------------------- MODULE MCServiceRuntime --------------------------
(***************************************************************************)
(* The installations that ServiceRuntime is checked with: a valid one of   *)
(* two networks, variants that are accepted, and one variant for each rule *)
(* that rejects a configuration.                                           *)
(***************************************************************************)
EXTENDS ServiceRuntime, TLC

Url(type, protocol, weight) ==
    [type_ |-> type, protocol |-> protocol, weight |-> weight, secret |-> "plain"]

Alpha == [name |-> "Alpha", slug |-> "alpha", network_type |-> "EVM",
          rpc_urls |-> {Url("rpc", "https", 100)}, block_time_ms |-> 1000,
          confirmation_blocks |-> 1, cron_schedule |-> "valid", max_past_blocks |-> {},
          recovery_config |-> {}]
Beta == [Alpha EXCEPT !.name = "Beta", !.slug = "beta", !.network_type = "Midnight",
                      !.rpc_urls = {Url("ws_rpc", "wss", 0), Url("ws_rpc", "ws", 1)},
                      !.recovery_config = {[enabled |-> TRUE, cron_schedule |-> "valid"]}]

Gamma == [Alpha EXCEPT !.name = "Gamma", !.slug = "gamma"]

\* A run takes two blocks and skips the third.
Delta == [Alpha EXCEPT !.name = "Delta", !.slug = "delta", !.max_past_blocks = {1}]

Message == [title |-> "text", body |-> "text"]

Script(path, language, timeout) == [path |-> path, language |-> language, timeout_ms |-> timeout]

Hook == [name |-> "Hook", trigger_type |-> "webhook", secrets |-> {"plain"},
         config |-> [kind |-> "webhook", url |-> "https", method |-> {"POST"},
                     payload_mode |-> "template", message |-> Message]]
Run == [name |-> "Run", trigger_type |-> "script", secrets |-> {},
        config |-> [kind |-> "script", path |-> "notify.sh", language |-> "bash", timeout_ms |-> 1]]
Slack    == [Hook EXCEPT !.trigger_type = "slack",
                         !.config = [kind |-> "slack", url |-> "slack", message |-> Message]]
Discord  == [Hook EXCEPT !.trigger_type = "discord",
                         !.config = [kind |-> "discord", url |-> "discord", message |-> Message]]
Telegram == [Hook EXCEPT !.trigger_type = "telegram",
                         !.config = [kind |-> "telegram", token |-> "valid", chat_id |-> "text",
                                     message |-> Message]]
Email    == [Hook EXCEPT !.trigger_type = "email",
                         !.config = [kind |-> "email", host |-> "valid", username |-> "valid",
                                     password |-> "text", message |-> Message, sender |-> "valid",
                                     recipients |-> {"valid"}]]

Monitor == [name |-> "Monitor", paused |-> FALSE, networks |-> {"gamma", "beta"},
            triggers |-> {"hook", "run"}, signatures |-> {"parenthesized"},
            trigger_conditions |-> {Script("filter.py", "python", 1)}, viewing_keys |-> {"vault"},
            blocks |-> {<<"alpha", 2>>, <<"gamma", 2>>},
            hits |-> {"gamma", "beta"}]
Paused == [Monitor EXCEPT !.name = "Paused", !.paused = TRUE, !.networks = {"gamma"},
                          !.triggers = {"hook"}, !.trigger_conditions = {}]
OnAlpha == [Monitor EXCEPT !.networks = {"alpha"}]
OnDelta == [Monitor EXCEPT !.networks = {"delta"}, !.triggers = {"hook"}, !.trigger_conditions = {},
                           !.blocks = {<<"delta", 2>>, <<"delta", 4>>}]

File(items) == [json |-> TRUE, parses |-> TRUE, items |-> items]

Serve == [mode |-> "serve", monitor |-> Monitor, network |-> {}, block |-> FALSE,
          restarts |-> 0]

Scripts ==
    ("filter.py" :> [extension |-> "py", readable |-> TRUE]) @@
    ("notify.sh" :> [extension |-> "sh", readable |-> TRUE]) @@
    ("secret.sh" :> [extension |-> "sh", readable |-> FALSE])

Installation(nets, trigs, mons) ==
    [networks |-> {File(k :> nets[k]) : k \in DOMAIN nets},
     triggers |-> {File(trigs)},
     monitors |-> {File(k :> mons[k]) : k \in DOMAIN mons},
     directories |-> Kinds, scripts |-> Scripts, command |-> Serve]

TwoNetworks == ("gamma" :> Gamma) @@ ("beta" :> Beta)
TwoTriggers == ("hook" :> Hook) @@ ("run" :> Run)

Base == Installation(TwoNetworks, TwoTriggers, ("monitor" :> Monitor) @@ ("paused" :> Paused))

\* One network and one monitor, each changed.
With(n, m) == Installation("alpha" :> n, TwoTriggers, "monitor" :> m)

Restarted(i) == [i EXCEPT !.command.restarts = 1]
WithTrigger(t) == Installation("alpha" :> Alpha, ("hook" :> t) @@ TwoTriggers, "monitor" :> OnAlpha)

Accepted ==
    {Base,
     Installation("stem" :> Alpha, TwoTriggers, "monitor" :> [OnAlpha EXCEPT !.networks = {"stem"}]),
     With([Alpha EXCEPT !.rpc_urls = {Url("rpc", "wss", 5), Url("rpc", "https", 0)}], OnAlpha),
     Installation(("gamma" :> [Gamma EXCEPT !.recovery_config = {[enabled |-> TRUE, cron_schedule |-> "invalid"]}])
                      @@ ("beta" :> Beta), TwoTriggers, "monitor" :> Monitor),
     With([Alpha EXCEPT !.network_type = "Solana"], [OnAlpha EXCEPT !.signatures = {"plain"}]),
     With(Alpha, [OnAlpha EXCEPT !.paused = TRUE]),
     With(Alpha, OnAlpha),
     Restarted(Installation("delta" :> Delta, TwoTriggers, "monitor" :> OnDelta)),
     [With(Alpha, OnAlpha) EXCEPT
          !.triggers = {File("hook" :> Hook), File(("hook" :> [Slack EXCEPT !.name = "Chat"]) @@ ("run" :> Run)),
                        [json |-> FALSE, parses |-> FALSE, items |-> Nothing]}],
     [With(Alpha, OnAlpha) EXCEPT !.command.mode = "check"],
     WithTrigger([Hook EXCEPT !.trigger_type = "slack"])}

RejectedNetworks ==
    {[Alpha EXCEPT !.name = ""], [Alpha EXCEPT !.slug = "Not-A-Slug"],
     [Alpha EXCEPT !.rpc_urls = {Url("ws_rpc", "https", 1)}],
     [Alpha EXCEPT !.rpc_urls = {Url("rpc", "ftp", 1)}],
     [Alpha EXCEPT !.rpc_urls = {Url("rpc", "https", 101)}],
     [Alpha EXCEPT !.rpc_urls = {[Url("rpc", "https", 1) EXCEPT !.secret = "unset"]}],
     [Beta EXCEPT !.rpc_urls = {Url("ws_rpc", "https", 1)}],
     [Alpha EXCEPT !.block_time_ms = 99], [Alpha EXCEPT !.confirmation_blocks = 0],
     [Alpha EXCEPT !.cron_schedule = "invalid"], [Alpha EXCEPT !.max_past_blocks = {0}]}

RejectedTriggers ==
    {[Hook EXCEPT !.name = ""], [Hook EXCEPT !.secrets = {"unset"}],
     [Hook EXCEPT !.name = "run "],
     [Hook EXCEPT !.config.url = "ftp"], [Hook EXCEPT !.config.method = {"PATCH"}],
     [Hook EXCEPT !.config.message.title = "blank"],
     [Slack EXCEPT !.config.url = "https"], [Slack EXCEPT !.config.message.body = "blank"],
     [Discord EXCEPT !.config.url = "https"], [Discord EXCEPT !.config.message.body = "long"],
     [Telegram EXCEPT !.config.token = "bad"], [Telegram EXCEPT !.config.chat_id = "blank"],
     [Telegram EXCEPT !.config.message.body = "longer"],
     [Email EXCEPT !.config.host = "bad"], [Email EXCEPT !.config.username = "blank"],
     [Email EXCEPT !.config.password = "blank"], [Email EXCEPT !.config.message.title = "long"],
     [Email EXCEPT !.config.message.body = "control"], [Email EXCEPT !.config.sender = "bad"],
     [Email EXCEPT !.config.recipients = {}], [Email EXCEPT !.config.recipients = {"valid", "bad"}],
     [Run EXCEPT !.config.path = "missing.sh"], [Run EXCEPT !.config.timeout_ms = 0]}

AcceptedTriggers == {Slack, Discord, Telegram, Email, [Hook EXCEPT !.config.payload_mode = "raw",
                                                                   !.config.message.title = "blank"]}

RejectedMonitors ==
    {[OnAlpha EXCEPT !.name = ""], [OnAlpha EXCEPT !.networks = {}],
     [OnAlpha EXCEPT !.networks = {"alpha", "delta"}], [OnAlpha EXCEPT !.triggers = {"call"}],
     [OnAlpha EXCEPT !.signatures = {"plain"}], [OnAlpha EXCEPT !.viewing_keys = {"unset"}],
     [OnAlpha EXCEPT !.trigger_conditions = {Script("missing.py", "python", 1)}],
     [OnAlpha EXCEPT !.trigger_conditions = {Script("filter.py", "bash", 1)}],
     [OnAlpha EXCEPT !.trigger_conditions = {Script("filter.py", "python", 0)}],
     [OnAlpha EXCEPT !.trigger_conditions = {Script("secret.sh", "bash", 1)}]}

Rejected ==
    {With(n, OnAlpha) : n \in RejectedNetworks}
        \union {WithTrigger(t) : t \in RejectedTriggers}
        \union {With(Alpha, m) : m \in RejectedMonitors}
        \union {[Base EXCEPT !.directories = Kinds \ {k}] : k \in Kinds}
        \union {Installation(("alpha" :> Alpha) @@ ("beta" :> n), TwoTriggers, "monitor" :> OnAlpha) :
                   n \in {[Beta EXCEPT !.name = "alpha "], [Beta EXCEPT !.slug = "alpha"]}}
        \union {Installation(TwoNetworks, TwoTriggers,
                            ("monitor" :> Monitor) @@ ("copy" :> [Paused EXCEPT !.name = "MONITOR"]))}
        \union {[Base EXCEPT !.monitors = {[json |-> TRUE, parses |-> FALSE, items |-> Nothing]}]}

Execute1(monitor, net, block) ==
    [Base EXCEPT !.command = [mode |-> "execute", monitor |-> monitor, network |-> net, block |-> block,
                              restarts |-> 0]]

Executions ==
    {Execute1(Monitor, {}, FALSE), Execute1(Monitor, {"gamma"}, TRUE), Execute1(Monitor, {}, TRUE),
     Execute1(Monitor, {"delta"}, FALSE), Execute1(Paused, {}, FALSE), Execute1(Paused, {"gamma"}, FALSE),
     Execute1([Monitor EXCEPT !.triggers = {"call"}], {}, FALSE)}

AllInstallations ==
    Accepted \union Rejected \union Executions
        \union {[WithTrigger(t) EXCEPT !.command.mode = "check"] : t \in AcceptedTriggers}

SpokenNames ==
    [n \in {"", "Alpha", "alpha ", "Beta", "Gamma", "Delta", "Hook", "Chat", "Run", "run ", "Monitor", "MONITOR", "Paused"} |->
        CASE n \in {"Alpha", "alpha "} -> "alpha"
          [] n \in {"Run", "run "} -> "run"
          [] n \in {"Monitor", "MONITOR"} -> "monitor"
          [] OTHER -> n]

ChainEnds == [alpha |-> 2, beta |-> 2, gamma |-> 2, delta |-> 4]
=============================================================================
