---------------------------- MODULE Configuration ----------------------------
(***************************************************************************)
(* How the configuration is loaded: the networks, then the triggers, then  *)
(* the monitors, each from the JSON files of a directory, whose order the  *)
(* file system chooses.  A file is parsed, its secrets are resolved, each  *)
(* of its items is validated and compared with those already read; the     *)
(* first error ends the process.  What was read is kept under a key: the   *)
(* file's stem for networks and monitors, the name in the file for         *)
(* triggers; a later item replaces an earlier one with the same key.       *)
(* Finally the monitors' references are checked.                           *)
(*                                                                         *)
(* A text is a member of a small set, or the class that validation tells   *)
(* apart ("blank", "text", "long", ...).  An optional value is a set of at *)
(* most one element.                                                       *)
(***************************************************************************)
EXTENDS Naturals, FiniteSets

CONSTANTS
    Installations,    \* the configurations considered
    Normalized,       \* each name, trimmed and in lower case
    WellFormedSlugs   \* slugs of lower-case letters, digits and underscores

Kinds == {"networks", "triggers", "monitors"}

VARIABLES
    installation,   \* the files, the scripts and the command line
    loading,        \* the kind being loaded, "references", "accepted" or "rejected"
    files,          \* the files of this kind still to be read
    read,           \* the items of this kind already read, replaced ones included
    networks, triggers, monitors    \* the items kept, by their keys

configVars == <<installation, loading, files, read, networks, triggers, monitors>>

Nothing == [k \in {} |-> k]

ConfigInit(chosen) ==
    /\ installation = chosen
    /\ loading = "networks"
    /\ files = chosen.networks
    /\ read = {}
    /\ networks = Nothing /\ triggers = Nothing /\ monitors = Nothing

(***************************************************************************)
(* Secrets: given in the file, in the environment or in the vault.         *)
(***************************************************************************)
Resolves(secret) == secret \in {"plain", "environment", "vault"}

Secrets(kind, item) ==
    CASE kind = "networks" -> {u.secret : u \in item.rpc_urls}
      [] kind = "triggers" -> item.secrets
      [] kind = "monitors" -> item.viewing_keys

(***************************************************************************)
(* Validation.                                                             *)
(***************************************************************************)
Extension == [python |-> "py", javascript |-> "js", bash |-> "sh"]

ValidScript(s) ==
    /\ s.path \in DOMAIN installation.scripts
    /\ installation.scripts[s.path].extension = Extension[s.language]
    /\ s.timeout_ms # 0

ValidUrl(network_type, u) ==
    /\ u.type_ = IF network_type = "Midnight" THEN "ws_rpc" ELSE "rpc"
    /\ u.protocol \in {"wss", "ws"} \union (IF network_type = "Midnight" THEN {} ELSE {"http", "https"})
    /\ u.weight <= 100

ValidNetwork(n) ==
    /\ n.name # ""
    /\ n.slug \in WellFormedSlugs
    /\ \A u \in n.rpc_urls : ValidUrl(n.network_type, u)
    /\ n.block_time_ms \in Nat /\ n.block_time_ms >= 100
    /\ n.confirmation_blocks \in Nat \ {0}
    /\ n.cron_schedule = "valid"
    /\ n.max_past_blocks \subseteq Nat \ {0}

ValidMessage(m, bodies) == m.title # "blank" /\ m.body \in bodies

ValidSlack(c) == c.url = "slack" /\ ValidMessage(c.message, {"text", "control", "long", "longer"})

ValidDiscord(c) == c.url = "discord" /\ ValidMessage(c.message, {"text", "control"})

ValidTelegram(c) ==
    /\ c.token = "valid" /\ c.chat_id # "blank"
    /\ ValidMessage(c.message, {"text", "control", "long"})

ValidWebhook(c) ==
    /\ c.url \in {"slack", "discord", "https", "http"}
    /\ c.method \subseteq {"GET", "POST", "PUT", "DELETE"}
    /\ c.payload_mode = "template" => ValidMessage(c.message, {"text", "control", "long", "longer"})

ValidEmail(c) ==
    /\ c.host = "valid" /\ c.username = "valid" /\ c.password # "blank"
    /\ ValidMessage(c.message, {"text", "long", "longer"})
    /\ c.message.title = "text"
    /\ c.sender = "valid"
    /\ c.recipients # {} /\ c.recipients \subseteq {"valid"}

ValidConfig(c) ==
    CASE c.kind = "slack"    -> ValidSlack(c)
      [] c.kind = "discord"  -> ValidDiscord(c)
      [] c.kind = "telegram" -> ValidTelegram(c)
      [] c.kind = "webhook"  -> ValidWebhook(c)
      [] c.kind = "email"    -> ValidEmail(c)
      [] c.kind = "script"   -> ValidScript(c)

\* A configuration of another kind than the trigger's type is not looked at.
ValidTrigger(t) ==
    /\ t.name # ""
    /\ t.config.kind = t.trigger_type => ValidConfig(t.config)

ValidMonitor(m) ==
    /\ m.name # ""
    /\ m.networks # {}
    /\ \A c \in m.trigger_conditions : ValidScript(c)

Valid(kind, item) ==
    CASE kind = "networks" -> ValidNetwork(item)
      [] kind = "triggers" -> ValidTrigger(item)
      [] kind = "monitors" -> ValidMonitor(item)

\* A valid slug is its own normal form.
Clashes(kind, a, b) ==
    \/ Normalized[a.name] = Normalized[b.name]
    \/ kind = "networks" /\ a.slug = b.slug

(***************************************************************************)
(* Loading.                                                                *)
(***************************************************************************)
Together(items, kept) ==
    [k \in DOMAIN items \union DOMAIN kept |-> IF k \in DOMAIN items THEN items[k] ELSE kept[k]]

Keep(kind, items) ==
    /\ networks' = IF kind = "networks" THEN Together(items, networks) ELSE networks
    /\ triggers' = IF kind = "triggers" THEN Together(items, triggers) ELSE triggers
    /\ monitors' = IF kind = "monitors" THEN Together(items, monitors) ELSE monitors

Items(f) == {f.items[k] : k \in DOMAIN f.items}

Acceptable(kind, f) ==
    /\ f.parses
    /\ \A i \in Items(f) : (\A s \in Secrets(kind, i) : Resolves(s)) /\ Valid(kind, i)
    /\ \A k \in DOMAIN f.items : \A j \in DOMAIN f.items :
           k # j => ~Clashes(kind, f.items[k], f.items[j])
    /\ \A i \in Items(f), r \in read : ~Clashes(kind, i, r)

Reject ==
    /\ loading' = "rejected"
    /\ UNCHANGED <<installation, files, read, networks, triggers, monitors>>

\* Files of other types are passed over.
ReadFile(f) ==
    /\ loading \in Kinds
    /\ loading \in installation.directories
    /\ f \in files
    /\ IF ~f.json
       THEN /\ files' = files \ {f}
            /\ UNCHANGED <<installation, loading, read, networks, triggers, monitors>>
       ELSE IF Acceptable(loading, f)
       THEN /\ files' = files \ {f}
            /\ read' = read \union Items(f)
            /\ Keep(loading, f.items)
            /\ UNCHANGED <<installation, loading>>
       ELSE Reject

NoDirectory ==
    /\ loading \in Kinds
    /\ loading \notin installation.directories
    /\ Reject

NextKind ==
    /\ loading \in Kinds \intersect installation.directories
    /\ files = {}
    /\ loading' = CASE loading = "networks" -> "triggers"
                    [] loading = "triggers" -> "monitors"
                    [] loading = "monitors" -> "references"
    /\ files' = CASE loading = "networks" -> installation.triggers
                  [] loading = "triggers" -> installation.monitors
                  [] loading = "monitors" -> {}
    /\ read' = {}
    /\ UNCHANGED <<installation, networks, triggers, monitors>>

(***************************************************************************)
(* validate_monitor_references.                                            *)
(***************************************************************************)
NeedsParentheses(network_type) == network_type # "Solana"

ValidSignatures(m) ==
    \A k \in m.networks \intersect DOMAIN networks :
        NeedsParentheses(networks[k].network_type) => \A s \in m.signatures : s = "parenthesized"

\* Mutant: only the networks that are known are looked at.
ValidReferencesToKnown(m) ==
    /\ m.triggers \subseteq DOMAIN triggers
    /\ ValidSignatures(m)
    /\ \A c \in m.trigger_conditions : ValidScript(c)

ValidReferences(m) ==
    /\ m.triggers \subseteq DOMAIN triggers
    /\ m.networks \subseteq DOMAIN networks
    /\ ValidSignatures(m)
    /\ \A c \in m.trigger_conditions : ValidScript(c)

CheckReferences ==
    /\ loading = "references"
    /\ IF \A k \in DOMAIN monitors : ValidReferences(monitors[k])
       THEN /\ loading' = "accepted"
            /\ UNCHANGED <<installation, files, read, networks, triggers, monitors>>
       ELSE Reject

Load == NoDirectory \/ NextKind \/ CheckReferences \/ \E f \in files : ReadFile(f)

(***************************************************************************)
(* What the rest of the program makes of it.                               *)
(***************************************************************************)
ActiveMonitors == {monitors[k] : k \in {j \in DOMAIN monitors : ~monitors[j].paused}}

\* The monitors as the files have them, whatever is kept.
EveryMonitor == UNION {Items(f) : f \in {g \in installation.monitors : g.json}}

Applicable(slug) == {m \in ActiveMonitors : slug \in m.networks}

WithMonitors == {k \in DOMAIN networks : Applicable(networks[k].slug) # {}}

\* The scripts that load_scripts reads, each for the monitor that uses it.
ScriptsOf(m) ==
    {c.path : c \in m.trigger_conditions} \union
    {triggers[t].config.path : t \in {t \in m.triggers : triggers[t].config.kind = "script"}}
=============================================================================
