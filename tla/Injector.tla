------------------------------- MODULE Injector -------------------------------
(***************************************************************************)
(* How modules are put together (lib/di): the injector walks through the   *)
(* providers of a module factory, and before it makes an instance resolves *)
(* what the instance depends on, which it keeps in its container.  What it *)
(* is about to resolve is pending; to come back to it is a circular        *)
(* dependency.                                                             *)
(*                                                                         *)
(* The code is recursive and runs in one turn; a frame of `stack` is a     *)
(* call of resolveModuleProvider that is not over, a step is the part of   *)
(* it up to the next call or return.  Injector.pending belongs to the      *)
(* class, and outlives a bootstrap that throws.  Value and factory         *)
(* providers are like classes, without dependencies and with them; child   *)
(* injectors, and providers of a factory that others inherit, are left     *)
(* out.                                                                    *)
(***************************************************************************)
EXTENDS Integers, Sequences, Functions

CONSTANTS
  Tokens,      \* how many; the order of providers is that of tokens
  Base,        \* the dependencies of a class others may inherit from
  MaxRetries   \* bound: bootstraps after one that failed

VARIABLES
  providers,   \* universalProviders
  stack, pending,
  container,   \* tokens with an instance: the token it was made for
  made,        \* history: tokens in the order their instances were made
  status,      \* "running", or how bootstrap ended
  left,        \* history: what was pending at the beginning
  retries

vars == <<providers, stack, pending, container, made, status, left, retries>>

Token == 1..Tokens
Need  == {"no", "optional", "required"}

Absent == [kind |-> "absent"]
Class(deps) == [kind |-> "class", deps |-> deps]
Existing(t) == [kind |-> "existing", use |-> t]
Failure == {"circular", "notFound"}

TypeOK ==
  /\ \A t \in Token : \/ providers[t] = Absent
                      \/ \E u \in Token : providers[t] = Existing(u)
                      \/ \E deps \in [Token -> Need] : providers[t] = Class(deps)
  /\ \A i \in DOMAIN stack : stack[i].token \in Token /\ stack[i].rest \subseteq Token
  /\ pending \subseteq Token /\ left \subseteq Token
  /\ container \in [Token -> 0..Tokens]
  /\ made \in Seq(Token)
  /\ status \in {"running", "done"} \cup Failure
  /\ retries \in 0..MaxRetries

-----------------------------------------------------------------------------
(* Metadata. *)

\* Registry.mergeDependencies: a dependency is optional if both classes have it so.
Stronger(a, b) ==
  IF "required" \in {a, b} THEN "required" ELSE IF "optional" \in {a, b} THEN "optional" ELSE "no"
MergeDependencies(deps, inherited) == [t \in Token |-> Stronger(deps[t], inherited[t])]

\* No class names itself.
OwnDeps(t) == {deps \in [Token -> Need] : deps[t] = "no"}

Providers(t) ==
  {Absent} \cup {Existing(u) : u \in Token}
    \cup {Class(deps) : deps \in OwnDeps(t)}
    \cup {Class(MergeDependencies(deps, Base)) : deps \in OwnDeps(t)}

Has(t)  == providers[t] # Absent
Deps(t) == {d \in Token : providers[t].deps[d] # "no"}

Init ==
  /\ providers \in {p \in [Token -> UNION {Providers(t) : t \in Token}] :
                      \A t \in Token : p[t] \in Providers(t)}
  /\ stack = <<>> /\ pending = {} /\ container = [t \in Token |-> 0]
  /\ made = <<>> /\ status = "running" /\ left = {} /\ retries = 0

-----------------------------------------------------------------------------
(* resolveModuleProvider. *)

Resolved(t) == container[t] # 0
Running == status = "running"
Fails(how) ==
  /\ status' = how
  /\ UNCHANGED <<providers, stack, pending, container, made, left, retries>>

\* A call for t.  It returns at once if there is an instance.  An alias is pending as a
\* provider, a class as a token; the set holds both, as each token has one provider.
Resolve(t) ==
  /\ pending' = pending \cup {t}
  /\ stack' = <<[token |-> t,
                rest |-> IF providers[t].kind = "existing" THEN {providers[t].use} ELSE Deps(t)]>>
              \o stack
  /\ UNCHANGED <<providers, container, made, status, left, retries>>

\* _bootstrap takes the next provider.
NextProvider ==
  /\ Running /\ stack = <<>>
  /\ LET rest == {t \in Token : Has(t) /\ ~Resolved(t)} IN
       IF rest = {} THEN Fails("done")
       ELSE \E t \in rest : (\A u \in rest : t <= u) /\ Resolve(t)

Top == Head(stack)
IsAlias == providers[Top.token].kind = "existing"
Goes(d) ==
  /\ stack' = [stack EXCEPT ![1].rest = @ \ {d}]
  /\ UNCHANGED <<providers, pending, container, made, status, left, retries>>

IsCircular_TokensOnly(d) == d \in pending /\ ~IsAlias
\* A token that is pending is not looked for again, whether or not there is an instance or
\* a provider; an alias is pending as a provider, which only resolving it again finds out.
IsCircular(d) ==
  /\ d \in pending
  /\ ~IsAlias \/ (Has(d) /\ providers[d].kind = "existing")

\* resolveDependencies looks at a dependency, or an alias at what it stands for.
Dependency ==
  /\ Running /\ stack # <<>>
  /\ \E d \in Top.rest :
       \/ IsCircular(d) /\ Fails("circular")
       \/ ~IsCircular(d) /\ Resolved(d) /\ Goes(d)
       \/ ~IsCircular(d) /\ ~Resolved(d) /\ Has(d) /\ Resolve(d)
       \/ /\ ~IsCircular(d) /\ ~Has(d)
          /\ IF ~IsAlias /\ providers[Top.token].deps[d] = "optional" THEN Goes(d)
             ELSE Fails("notFound")

\* All there is to it is there: the instance is made, or that of the other token taken.
Instance == IF IsAlias THEN container[providers[Top.token].use] ELSE Top.token

Instantiate ==
  /\ Running /\ stack # <<>> /\ Top.rest = {}
  /\ container' = [container EXCEPT ![Top.token] = Instance]
  /\ made' = IF IsAlias THEN made ELSE Append(made, Top.token)
  /\ pending' = pending \ {Top.token}
  /\ stack' = Tail(stack)
  /\ UNCHANGED <<providers, status, left, retries>>

\* Another bootstrap of the page after an error, with a dependency taken away.  The
\* providers are new objects, the tokens are not.
Again ==
  /\ status \in Failure /\ retries < MaxRetries
  /\ \E t, d \in Token :
       /\ providers[t].kind = "class" /\ providers[t].deps[d] # "no"
       /\ providers' = [providers EXCEPT ![t].deps[d] = "no"]
  /\ pending' = {t \in pending : providers[t].kind = "class"}
  /\ left' = pending'
  /\ stack' = <<>> /\ container' = [t \in Token |-> 0] /\ made' = <<>>
  /\ status' = "running" /\ retries' = retries + 1

Next == NextProvider \/ Dependency \/ Instantiate \/ Again

Spec == Init /\ [][Next]_vars

-----------------------------------------------------------------------------
(* What a provider leads to, if there are no errors. *)
Edges(t) ==
  {d \in Token : Has(d)} \cap (IF providers[t].kind = "existing" THEN {providers[t].use} ELSE Deps(t))
Providing == {t \in Token : Has(t)}
HasCycle  == \E S \in (SUBSET Providing) \ {{}} : \A t \in S : Edges(t) \cap S # {}
HasGap    ==
  \E t \in Providing : IF providers[t].kind = "existing" THEN ~Has(providers[t].use)
                       ELSE \E d \in Token : providers[t].deps[d] = "required" /\ ~Has(d)

(* Bootstrap ends well when, and only when, what depends on each other has no circle    *)
(* and nothing that is needed has no provider, and then everything has an instance; it  *)
(* says a circle when there is one, unless an earlier bootstrap left tokens pending;    *)
(* one instance is made for a token, after all it depends on, optional ones included,   *)
(* and an alias is the instance it stands for; and it never goes round in circles.      *)
ModulesInjected ==
  /\ status = "done" => ~HasCycle /\ ~HasGap /\ \A t \in Providing : Resolved(t)
  /\ status = "circular" => HasCycle \/ left # {}
  /\ status = "notFound" => HasGap
  /\ IsInjective(made)
  /\ \A i \in DOMAIN made : \A d \in Edges(made[i]) :
       \E j \in 1..(i - 1) : made[j] = container[d]
  /\ \A t \in Providing : providers[t].kind = "existing" /\ Resolved(t) =>
       container[t] = container[providers[t].use]
  /\ Len(stack) <= 2 * Tokens
=============================================================================
