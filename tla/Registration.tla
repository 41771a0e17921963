---------------------------- MODULE Registration ----------------------------
(***************************************************************************)
(* The plugin's entry point (profile_guard.py register): decide from the     *)
(* configuration whether the active profile may have mail at all, load the  *)
(* configuration a second time into a runtime (plugin.py), and register     *)
(* tools, commands, skill and unload hook one host call at a time.  A call   *)
(* may raise or be answered with None; whatever was registered is disposed   *)
(* again, innermost group first, and disposing may raise too.  The host may   *)
(* unload the plugin from another thread while all this goes on, and an     *)
(* operator may change the configuration between its two readings.          *)
(***************************************************************************)
EXTENDS Integers, Sequences, FiniteSets

CONSTANTS
  Profile,  \* valid profile identifiers
  Edits,    \* configurations an operator may put in place meanwhile
  Drafting, \* numbers of draft tools and of tools that read, 9 and 5
  Reading,
  None

VARIABLES
  pc,
  current,  \* ctx.profile_name
  cfg,      \* the configuration while it is being read
  allowed,  \* the guard's decision
  same,     \* the configuration was loaded as the guard saw it
  runtime,  \* the EmailPlugin or ProfileBlockedRuntime
  plan,     \* the host calls of this registration, in order
  at,       \* the call to make next
  regs,     \* the calls whose registration the host has
  silent,   \* those among them it returned no handle for
  held,     \* the handles in local variables
  group,    \* the helper whose handles are being disposed
  broke     \* dispose raised in a helper, or in the outer clause (history)

vars == <<pc, current, cfg, allowed, same, runtime, plan, at, regs, silent, held, group, broke>>
decided == <<current, allowed, same>>
undone == <<held, group, broke>>

\* A section is bad when get_config raises, or it is no mapping, or its mode is
\* not one of the choices.  "malformed" is a string that is no identifier; a
\* provider may be no name at all, written in another case, or one the resolver
\* does not know (white space too).  fine is false when something else in the
\* configuration, which the guard does not read, is refused.
Section == {"bad", "off", "on"}
Config == [profile: Profile \cup {"auto", "bad", "malformed"},
           provider: {None, "empty", "mock", "Mock", "imap", "other", "bad"},
           read: {"disabled", "mock", "readonly"},
           storage: Section, drafts: Section, audit: Section, smtp: Section,
           send: Section, workflow: BOOLEAN, fine: BOOLEAN]

\* What the constants have to be.
Setting ==
  /\ Profile # {} /\ Edits \subseteq Config
  /\ {Drafting, Reading} \subseteq Nat /\ None # "imap"

\* One defect is enough: with more, guard and loader do what they do for one.
Defects(c) ==
  Cardinality({part \in {"profile", "provider", "storage", "drafts", "audit", "smtp", "send"} : c[part] = "bad"})
    + (IF c.fine THEN 0 ELSE 1)

Runtime == [kind: {"none", "blocked", "plugin"}, open: BOOLEAN,
            provider: {None, "mock", "imap"}, reads: BOOLEAN,
            storage: BOOLEAN, drafts: BOOLEAN, audit: BOOLEAN,
            profile: Profile \cup {"auto", "malformed"}, workflow: BOOLEAN, armed: BOOLEAN]

NoRuntime ==
  [kind |-> "none", open |-> FALSE, provider |-> None, reads |-> FALSE, storage |-> FALSE,
   drafts |-> FALSE, audit |-> FALSE, profile |-> "auto", workflow |-> FALSE, armed |-> FALSE]
Blocked == [NoRuntime EXCEPT !.kind = "blocked", !.open = TRUE]
\* EmailPlugin's defaults, as after a ConfigError.
Unconfigured == [NoRuntime EXCEPT !.kind = "plugin", !.open = TRUE]

-----------------------------------------------------------------------------
(* The guard.  Definitions named Bug... are slips a maintainer could make in  *)
(* the definition that follows them.                                         *)

\* The audit section is forgotten.
BugProduction(c) ==
  \/ c.provider \notin {None, "empty", "mock"} \/ c.read = "readonly"
  \/ \E s \in {c.storage, c.drafts, c.smtp, c.send} : s # "off"

\* _production_capability_configured: the raw values, compared as they stand.
Production(c) ==
  \/ c.provider \notin {None, "empty", "mock"} \/ c.read = "readonly"
  \/ \E s \in {c.storage, c.drafts, c.audit, c.smtp, c.send} : s # "off"

\* evaluate_profile_policy
Allowed(c) ==
  \/ c.profile = "auto" /\ ~Production(c)
  \/ c.profile \in Profile /\ c.profile = current

-----------------------------------------------------------------------------
(* The loaded configuration and its runtime *)

\* strip().casefold()
Provider(c) == IF c.provider = "Mock" THEN "mock" ELSE c.provider

\* from_mapping and the checks across sections of EmailPluginConfig.
Valid(c) ==
  /\ c.fine
  /\ "bad" \notin {c.profile, c.provider, c.storage, c.drafts, c.audit, c.smtp, c.send}
  /\ c.workflow => c.profile # "auto" /\ c.send = "on" /\ c.smtp = "on"
  /\ Provider(c) = "imap" => c.read # "mock"
  /\ Provider(c) = "mock" => c.read # "readonly"
  /\ c.smtp = "on" => c.drafts = "on"
  /\ c.send = "on" => c.smtp = "on"
  /\ c.storage = "on" => c.provider # None /\ c.read # "disabled"

\* _create_runtime_plugin: no provider, one the resolver does not know, or one
\* of its two.  Only a resolved provider keeps an observation store.
Built(c) ==
  LET resolved == Provider(c) \in {"mock", "imap"} IN
  [kind |-> "plugin", open |-> TRUE,
   provider |-> IF resolved THEN Provider(c) ELSE None,
   reads |-> resolved /\ c.read # "disabled",
   storage |-> resolved /\ c.storage = "on",
   drafts |-> c.drafts = "on", audit |-> c.audit = "on",
   profile |-> c.profile, workflow |-> c.workflow,
   armed |-> c.send = "on" /\ c.smtp = "on" /\ c.drafts = "on"]

NeedsDataDir(c) == "on" \in {c.storage, c.drafts, c.audit}

-----------------------------------------------------------------------------
(* The host calls *)

Tools(kind, n) == [i \in 1 .. n |-> <<kind, i>>]
Hook == <<"hook", 1>>
Command == <<"command", 1>>
Approve == <<"human", 1>>
Send == <<"human", 2>>
Skill == <<"skill", 1>>
Reply == {<<"draft", 2>>, <<"draft", 3>>}

\* register_human_commands looks at the runtime when its turn comes.
Human(r) ==
  IF r.profile = "auto" \/ ~r.drafts THEN <<>>
  ELSE IF r.workflow THEN <<Approve, Send>> ELSE <<Approve>>

Plan(r) ==
  IF r.kind = "blocked" THEN <<Hook, Command>>
  ELSE <<Hook, Command>> \o Tools("draft", Drafting) \o Tools("read", Reading)

Kind(item) == item[1]
\* The helpers, each with a rollback clause of its own, that insist on a handle.
Helper == {"draft", "read", "human"}

\* Registered tools whose check_fn says yes.
Offered ==
  {item \in regs :
     /\ runtime.open
     /\ \/ Kind(item) = "draft" /\ runtime.drafts /\ (item \in Reply => runtime.reads)
        \/ Kind(item) = "read" /\ runtime.reads}

TypeOK ==
  /\ pc \in {"start", "load", "add", "undo", "registered", "failed"}
  /\ current \in Profile \cup {None, "malformed"}
  /\ cfg \in Config \cup {None}
  /\ allowed \in BOOLEAN /\ same \in BOOLEAN
  /\ runtime \in Runtime
  /\ at \in 1 .. Len(plan) + 1
  /\ silent \subseteq regs /\ held \subseteq regs
  /\ group \in Helper \cup {None}
  /\ broke \subseteq {"helper", "outer"}

Init ==
  /\ pc = "start"
  /\ current \in {CHOOSE p \in Profile : TRUE, "malformed"}
  /\ cfg \in {c \in Config : Defects(c) <= 1}
  /\ allowed = FALSE /\ same = TRUE
  /\ runtime = NoRuntime
  /\ plan = <<>> /\ at = 1
  /\ regs = {} /\ silent = {}
  /\ held = {} /\ group = None /\ broke = {}

Decide ==
  /\ pc = "start"
  /\ allowed' = Allowed(cfg)
  /\ IF allowed'
     THEN pc' = "load" /\ UNCHANGED <<cfg, runtime, plan>>
     ELSE /\ pc' = "add" /\ cfg' = None
          /\ runtime' = Blocked /\ plan' = Plan(Blocked)
  /\ UNCHANGED <<current, same, at, regs, silent, undone>>

Edit ==
  /\ pc = "load" /\ same
  /\ cfg' \in Edits \ {cfg}
  /\ same' = FALSE
  /\ UNCHANGED <<pc, current, allowed, runtime, plan, at, regs, silent, undone>>

Runs(r) ==
  /\ runtime' = r /\ plan' = Plan(r) /\ pc' = "add"

\* _create_runtime_plugin, outside the try: get_config or the data directory may
\* raise through it.
Load ==
  /\ pc = "load"
  /\ cfg' = None
  /\ \/ Valid(cfg) /\ Runs(Built(cfg))
     \/ ~Valid(cfg) /\ Runs(Unconfigured)
     \/ /\ ~Valid(cfg) \/ NeedsDataDir(cfg)
        /\ pc' = "failed"
        /\ UNCHANGED <<runtime, plan>>
  /\ UNCHANGED <<decided, at, regs, silent, undone>>

Next1(item) == at <= Len(plan) /\ plan[at] = item

\* The call registers and returns a handle, or, where the code does not insist on
\* one, nothing.  The skill has none.
Added(item) ==
  /\ pc = "add" /\ Next1(item)
  /\ at' = at + 1
  /\ regs' = regs \cup {item}
  /\ \/ /\ item # Skill
        /\ held' = held \cup {item} /\ UNCHANGED silent
     \/ /\ item \in {Hook, Command, Skill}
        /\ silent' = silent \cup {item} /\ UNCHANGED held
  /\ UNCHANGED <<pc, decided, cfg, runtime, plan, group, broke>>

\* The human commands and the skill follow the tools.
Continue ==
  /\ pc = "add" /\ at = Len(plan) + 1
  /\ IF runtime.kind = "plugin" /\ Skill \notin regs
     THEN plan' = plan \o Human(runtime) \o <<Skill>> /\ UNCHANGED pc
     ELSE pc' = "registered" /\ UNCHANGED plan
  /\ UNCHANGED <<decided, cfg, runtime, at, regs, silent, undone>>

\* The exception leaves the helper with its handles still registered.
BugRefused(item) ==
  /\ pc = "add" /\ Next1(item)
  /\ pc' = "undo"
  /\ held' = {i \in held : Kind(i) # Kind(item)}
  /\ group' = None
  /\ UNCHANGED <<decided, cfg, runtime, plan, at, regs, silent, broke>>

\* The call raises, or answers a helper with None.
Refused(item) ==
  /\ pc = "add" /\ Next1(item)
  /\ pc' = "undo"
  /\ group' = IF Kind(item) \in Helper THEN Kind(item) ELSE None
  /\ UNCHANGED <<decided, cfg, runtime, plan, at, regs, silent, held, broke>>

\* Each except clause goes through its handles backwards.
Newest(items) ==
  CHOOSE i \in items : \A j \in items :
    \E m, n \in 1 .. Len(plan) : plan[m] = i /\ plan[n] = j /\ m >= n

Dispose ==
  /\ pc = "undo" /\ held # {}
  /\ LET item == Newest(held) IN regs' = regs \ {item} /\ held' = held \ {item}
  /\ UNCHANGED <<pc, decided, cfg, runtime, plan, at, silent, group, broke>>

\* dispose raises and leaves its registration: the rest of this clause's handles
\* are forgotten.  A helper's exception still reaches the outer clause.
DisposeRaises ==
  /\ pc = "undo" /\ held # {}
  /\ IF group # None /\ Kind(Newest(held)) = group
     THEN /\ broke' = broke \cup {"helper"}
          /\ held' = {i \in held : Kind(i) # group}
          /\ group' = None
          /\ UNCHANGED pc
     ELSE /\ broke' = broke \cup {"outer"}
          /\ held' = {} /\ group' = None
          /\ pc' = "failed"
  /\ UNCHANGED <<decided, cfg, runtime, plan, at, regs, silent>>

\* close(): provider and stores are dropped.
Closed(r) == [r EXCEPT !.open = FALSE, !.provider = None, !.reads = FALSE,
                       !.storage = FALSE, !.drafts = FALSE, !.audit = FALSE]

\* runtime.close(), then the exception goes on to the host.
Undone ==
  /\ pc = "undo" /\ held = {}
  /\ pc' = "failed"
  /\ runtime' = Closed(runtime)
  /\ group' = None
  /\ UNCHANGED <<decided, cfg, plan, at, regs, silent, held, broke>>

\* The host calls the hook, at any moment it has it.
Unload ==
  /\ Hook \in regs /\ runtime.open
  /\ runtime' = Closed(runtime)
  /\ UNCHANGED <<pc, decided, cfg, plan, at, regs, silent, undone>>

Host == Unload \/ (at <= Len(plan) /\ (Added(plan[at]) \/ Refused(plan[at])))

Next == Decide \/ Edit \/ Load \/ Continue \/ Dispose \/ DisposeRaises \/ Undone \/ Host

Spec == Init /\ [][Next]_vars

-----------------------------------------------------------------------------
(* Properties *)

\* A registration that fails at any call leaves nothing behind: every handle it
\* was given is disposed, and the runtime is closed.  A dispose that raises in a
\* helper leaves tools, but none that is still offered.
RollbackComplete ==
  pc = "failed" =>
    /\ broke = {} => regs \subseteq silent
    /\ "outer" \notin broke => ~runtime.open /\ Offered = {}

\* What only an explicitly authorised profile may have (a real mailbox, any store,
\* armed sending) exists only in a runtime whose configuration names the active
\* profile, unless the configuration changed between the guard and the load: the
\* guard's raw comparisons are never laxer than the loader's normalised ones.
\* Whatever changed, the command that sends is there only under an explicit
\* profile whose configuration arms sending.
BoundToProfile ==
  /\ runtime.kind = "plugin" /\ same /\ runtime.open
     /\ (runtime.provider = "imap" \/ runtime.storage \/ runtime.drafts \/ runtime.audit
           \/ runtime.armed)
       => runtime.profile \in Profile /\ runtime.profile = current
  /\ Send \in regs => runtime.profile # "auto" /\ runtime.armed

\* However registration ends, with calls and disposals failing anywhere and an
\* unload in the middle, a runtime that is left open is one the host can still
\* close: its hook is disposed last.
OpenIsReachable == pc \in {"registered", "failed"} /\ runtime.open => Hook \in regs

\* What holds however a registration goes.
RegistrationInv == TypeOK /\ RollbackComplete /\ OpenIsReachable
=============================================================================
