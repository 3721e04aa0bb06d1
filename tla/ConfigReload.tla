---------------------------- MODULE ConfigReload ----------------------------
(* /reload of main.py: App._reload_config_locked moves the scheduler, the  *)
(* proactive speaker and long-term memory to the configuration it read,    *)
(* one after another with waits in between, and puts all of them back if   *)
(* one fails.  Commands that change a setting write it to the file and to  *)
(* the configuration in use, at any time.                                  *)
(*                                                                         *)
(* A configuration is an override that commands set and the rest of the    *)
(* file, which only a person edits.                                        *)
EXTENDS ProactiveSpeaker

CONSTANTS
    Configs,      \* what the rest of the file may say
    Overrides,    \* what a group override may be
    MaxReloads,
    MaxChanges    \* bound on the edits, overrides and resets together

ASSUME ReloadAssumption ==
    /\ Eligible \subseteq Configs
    /\ MaxReloads \in Nat /\ MaxChanges \in Nat

VARIABLES
    file,        \* config.yaml
    app,         \* App.cfg, and with it the policy, resources and the others
    scheduler,   \* Scheduler.config
    memory,      \* the coordinator, the scopes and the services of memory
    reload,      \* where the reload stands, and the configuration it read
    reloads, changes

reloadVars == <<file, app, scheduler, memory, reload, reloads, changes>>
vars == <<speakerVars, reloadVars>>

Config == [rest : Configs, override : Overrides]
Idle == [pc |-> "idle", cfg |-> app]

Init ==
    /\ SpeakerInit
    /\ app \in [rest : {speakerCfg}, override : Overrides]
    /\ file = app
    /\ scheduler = app.rest /\ memory = app.rest
    /\ reload = [pc |-> "idle", cfg |-> app]
    /\ reloads = 0 /\ changes = 0

-----------------------------------------------------------------------------
(* Commands and edits.                                                     *)

EditFile(rest) ==
    /\ changes < MaxChanges /\ rest # file.rest
    /\ changes' = changes + 1
    /\ file' = [file EXCEPT !.rest = rest]
    /\ UNCHANGED <<speakerVars, app, scheduler, memory, reload, reloads>>

\* /permission, /mode and /profile: the setting in use changes and its block
\* of the file is written from it.
SetOverride(value) ==
    /\ changes < MaxChanges /\ value # app.override
    /\ changes' = changes + 1
    /\ app' = [app EXCEPT !.override = value]
    /\ file' = [file EXCEPT !.override = value]
    /\ UNCHANGED <<speakerVars, scheduler, memory, reload, reloads>>

\* /reset: the group's pending messages are dropped.
Reset ==
    /\ changes < MaxChanges
    /\ changes' = changes + 1
    /\ ResetChat
    /\ UNCHANGED <<file, app, scheduler, memory, reload, reloads>>

-----------------------------------------------------------------------------
(* The reload.                                                             *)

At(pc) == reload.pc = pc
Goes(pc) == reload' = [reload EXCEPT !.pc = pc]

BeginReload ==
    /\ At("idle") /\ reloads < MaxReloads
    /\ reloads' = reloads + 1
    /\ reload' = [pc |-> "scheduler", cfg |-> file]
    /\ scheduler' = file.rest
    /\ BeginHandoff
    /\ UNCHANGED <<speakerCfg, collected, batch, resumable, inflight, timer, work,
                   posts, remembered, settled, file, app, memory, changes>>

\* The scheduler has been started or stopped; proactive.stop() begins.
SchedulerMoved ==
    /\ At("scheduler")
    /\ Goes("drain")
    /\ task' = Told
    /\ UNCHANGED <<speakerCfg, generation, handoff, collected, batch, resumable,
                   inflight, timer, work, posts, remembered, settled,
                   file, app, scheduler, memory, reloads, changes>>

\* It could not be: rollback_handoff drains the timers first.
SchedulerFails ==
    /\ At("scheduler")
    /\ Goes("rollback")
    /\ task' = Told
    /\ UNCHANGED <<speakerCfg, generation, handoff, collected, batch, resumable,
                   inflight, timer, work, posts, remembered, settled,
                   file, app, scheduler, memory, reloads, changes>>

\* _stop_timers: the task has ended, or a second has passed.
Drained ==
    /\ At("drain")
    /\ Goes("memory")
    /\ timer' = None
    /\ UNCHANGED <<speakerCfg, generation, handoff, collected, batch, resumable,
                   inflight, task, work, posts, remembered, settled,
                   file, app, scheduler, memory, reloads, changes>>

\* Memory was reloaded and nothing waits any more: the new parts replace the
\* old ones.
Adopted == reload.cfg
CommitReload ==
    /\ At("memory")
    /\ memory' = reload.cfg.rest
    /\ app' = Adopted
    /\ CommitHandoff(reload.cfg.rest)
    /\ reload' = [pc |-> "idle", cfg |-> Adopted]
    /\ UNCHANGED <<collected, posts, remembered, file, scheduler, reloads,
                   changes>>

\* Mutant of MemoryFails: the coordinator keeps the new configuration.
MemoryLeft ==
    /\ At("memory")
    /\ memory' = reload.cfg.rest
    /\ Goes("rollback")
    /\ UNCHANGED <<speakerVars, file, app, scheduler, reloads, changes>>

\* Memory could not be: its coordinator, reloaded or not, gets App.cfg back.
MemoryFails ==
    /\ At("memory")
    /\ memory' = app.rest
    /\ Goes("rollback")
    /\ UNCHANGED <<speakerVars, file, app, scheduler, reloads, changes>>

\* _rollback_reload_transitions.
RollbackReload ==
    /\ At("rollback")
    /\ RollbackHandoff
    /\ scheduler' = app.rest
    /\ Goes("restore")
    /\ UNCHANGED <<collected, posts, remembered, file, app, memory, reloads,
                   changes>>
Restored ==
    /\ At("restore")
    /\ reload' = Idle
    /\ UNCHANGED <<speakerVars, file, app, scheduler, memory, reloads, changes>>

ReloadStep ==
    \/ SchedulerMoved \/ SchedulerFails \/ Drained \/ CommitReload
    \/ MemoryFails \/ RollbackReload \/ Restored

SpeakerStep ==
    /\ \/ \E m \in Messages : Observe(m)
       \/ \E t \in Tasks : FlushStep(t)
    /\ UNCHANGED reloadVars

Next ==
    \/ SpeakerStep
    \/ \E c \in Configs : EditFile(c)
    \/ \E o \in Overrides : SetOverride(o)
    \/ Reset
    \/ BeginReload \/ ReloadStep

\* The loop runs every task that is ready; the Agent and the sends return.
Fairness ==
    /\ \A t \in Tasks : WF_vars(FlushStep(t) /\ UNCHANGED reloadVars)
    /\ WF_vars(ReloadStep)

Spec == Init /\ [][Next]_vars /\ Fairness

-----------------------------------------------------------------------------
(* Properties.                                                             *)

TaskType == [pc : {"none", "sleep", "agent", "pause", "send"}, generation : Nat,
             work : Works \cup {None}, told : BOOLEAN]
WorkType == [batch : Seq(Messages), replies : 0 .. MaxReplies, next : 0 .. MaxReplies]

TypeOK ==
    /\ speakerCfg \in Configs /\ generation \in Nat /\ handoff \in BOOLEAN
    /\ collected \subseteq Messages /\ settled \subseteq collected
    /\ batch \in Seq(Messages) /\ Len(batch) =< MaxBatch
    /\ {resumable, inflight} \subseteq Works \cup {None}
    /\ timer \in Tasks \cup {None}
    /\ task \in [Tasks -> TaskType] /\ work \in [Works -> WorkType]
    /\ posts \in Seq(Seq(Messages) \X (0 .. MaxReplies - 1))
    /\ remembered \in Seq(Seq(Messages))
    /\ file \in Config /\ app \in Config
    /\ scheduler \in Configs /\ memory \in Configs
    /\ reload \in [pc : {"idle", "scheduler", "drain", "memory", "rollback", "restore"},
                   cfg : Config]
    /\ <<reloads, changes>> \in Nat \X Nat

\* Nobody in the group is answered twice about the same message: a reply is
\* not repeated, and a message whose batch went to another speaker while an
\* Agent was still thinking about it is not answered by both.  Nor is an
\* exchange remembered twice.
AnsweredOnce ==
    /\ \A i, j \in DOMAIN posts : i < j =>
          /\ posts[i] # posts[j]
          /\ ToSet(posts[i][1]) \cap ToSet(posts[j][1]) # {} => posts[i][1] = posts[j][1]
    /\ \A i, j \in DOMAIN remembered :
          i < j => ToSet(remembered[i]) \cap ToSet(remembered[j]) = {}

\* No message gets lost: what was collected and is not settled is in a batch,
\* in the works or left to resume, whatever was cancelled on the way.
Accounted == collected \ settled = Held

\* After a reload, whichever way it went, all parts have the same
\* configuration: the one App has.
PartsAgree ==
    At("idle") => /\ scheduler = app.rest /\ memory = app.rest
                  /\ speakerCfg = app.rest /\ ~handoff

\* Every message that was collected is settled some day.
Settles == \A m \in Messages : m \in collected ~> m \in settled

\* README.md:361: an override a group owner has set is in force until somebody
\* restores it; in particular it is the one that the file has.
OverrideHolds == At("idle") => app.override = file.override
=============================================================================
