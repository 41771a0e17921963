---------------------------- MODULE ProfileDrafts ----------------------------
(***************************************************************************)
(* What a profile has of its own: the registration that decides whether it may  *)
(* have mail (Registration, an instance) and the drafts kept for it (DraftStore, *)
(* extended here).  They share no state.                                        *)
(***************************************************************************)
EXTENDS DraftStore

CONSTANTS Profile, Edits, Drafting, Reading

VARIABLES pc, current, cfg, allowed, same, runtime, plan, at, regs, silent, held, group, broke

regVars == <<pc, current, cfg, allowed, same, runtime, plan, at, regs, silent, held, group, broke>>

Reg == INSTANCE Registration

-----------------------------------------------------------------------------
(* Registration's properties, under names of their own. *)

\* However a registration ends, with calls and disposals failing anywhere, nothing
\* that was handed out is left behind, and a runtime left open can be closed
\* (profile_guard.py register).
RegistrationInv == Reg!RegistrationInv

\* If the guard and the loader read the same file, mail, stores and armed sending exist
\* only under a configuration that names the active profile; and in any case the
\* command that sends exists only where the loaded configuration arms it
\* (evaluate_profile_policy and the loader, plugin.py).
BoundToProfile == Reg!BoundToProfile
=============================================================================
