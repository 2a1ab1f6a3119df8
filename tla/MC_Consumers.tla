-------------------------- MODULE MC_Consumers --------------------------
(* Small instances of Consumers. *)
EXTENDS Consumers, TLC

CONSTANTS x, y, p, q, r, s, t, u

\* Two projectors that depend on each other.
MCDependsOn == (p :> {q}) @@ (q :> {p})
\* What p's errors say varies from one attempt to the next, what q's say does not.
MCTexts == (p :> {t, u}) @@ (q :> {t})
\* Either the projectors or the reactors: nothing passes between the two here.
MCCasts == {{p, q}, {r, s}}
StandbyCasts == {{r}}
MCStartAt == (r :> "resume") @@ (s :> "latest")
=============================================================================
