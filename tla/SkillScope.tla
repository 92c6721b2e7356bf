------------------------------ MODULE SkillScope ------------------------------
(***************************************************************************)
(* Which skills a role is offered (catalog/skills.go): BuildSkills reads   *)
(* agent-skill-scope.yaml and the SKILL.md files afresh for each request,  *)
(* merges each skill's tags with those of the role, and leaves out what    *)
(* the role has no tag for.  The files are those of one workspace; any of  *)
(* them may be unreadable or unparsable, and is then passed over.          *)
(*                                                                         *)
(* A tag of a front matter is a modifier: "-t" takes t away, "+t" and "t"  *)
(* add it.  The order of a role's tags and of the answer is left out.       *)
(***************************************************************************)
EXTENDS Naturals, Sequences, FiniteSets, Functions

CONSTANTS
    Role,       \* roles that ask; "orchestrator" sees everything, as the empty one does
    Scopes,     \* what agent-skill-scope.yaml may say: records of version, roles and void
    LocalSkills,    \* what .opencode/skills may hold: sequences of skills
    ExternalSkills  \* what the repositories of the manifest may hold, likewise

Modifier == [sign : {"+", "-"}, tag : STRING]

\* A skill: name, and tags, a sequence of modifiers.  A role's tags are a set; void are
\* the roles that are listed without a value, which is not the empty list.
ASSUME SkillsAssumption ==
    /\ \A scope \in Scopes :
          /\ scope.version \in Nat
          /\ scope.void \subseteq STRING \ DOMAIN scope.roles
          /\ \A role \in DOMAIN scope.roles : scope.roles[role] \subseteq STRING
    /\ \A files \in LocalSkills \cup ExternalSkills :
          files \in Seq([name : STRING, tags : Seq(Modifier)])

VARIABLE skills   \* the files, and the answer to the last request

NoAnswerYet == [role |-> "none", read |-> {}, offered |-> {}]

SkillsInit ==
    skills \in [scope: Scopes, local: LocalSkills, external: ExternalSkills,
                answer: {NoAnswerYet}]

-----------------------------------------------------------------------------
\* A missing file allows everything; BuildSkills takes one it cannot read or parse
\* for a missing one.
MissingScope == [version |-> 1, roles |-> <<>>, void |-> {}]

LoadScope(readable) == IF readable THEN skills.scope ELSE MissingScope

Wildcard(role)       == role \in {"orchestrator", ""}
ScopeRoles(scope)    == DOMAIN scope.roles \cup scope.void
Unscoped(scope)      == ScopeRoles(scope) = {}
InScopeFile(role, scope) == role \in DOMAIN scope.roles
tagIntersection(a, b) == a \cap b

\* A slip: a removal leaves the tag in the set.
ModifyLeavesSeen(merged, m) ==
    IF m.sign = "-" THEN [merged EXCEPT !.tags = @ \ {m.tag}]
    ELSE IF m.tag \in merged.seen THEN merged
    ELSE [tags |-> merged.tags \cup {m.tag}, seen |-> merged.seen \cup {m.tag}]

\* One modifier of the front matter.  The tags are a list, which a removal rebuilds,
\* and beside it is the set an addition looks at.
Modify(merged, m) ==
    IF m.sign = "-" THEN [tags |-> merged.tags \ {m.tag}, seen |-> merged.seen \ {m.tag}]
    ELSE IF m.tag \in merged.seen THEN merged
    ELSE [tags |-> merged.tags \cup {m.tag}, seen |-> merged.seen \cup {m.tag}]

\* The role's tags after the first n modifiers, in their order.
Modified(yaml, modifiers) ==
    LET after[n \in 0..Len(modifiers)] ==
            IF n = 0 THEN [tags |-> yaml, seen |-> yaml]
            ELSE Modify(after[n - 1], modifiers[n])
    IN  after

MergeModifiers(yaml, modifiers) == Modified(yaml, modifiers)[Len(modifiers)].tags

\* The roles a skill is visible to, before its own tags are looked at.
ScopeOfRole(role, scope) ==
    IF scope.version = 0 \/ Unscoped(scope) \/ Wildcard(role) THEN ScopeRoles(scope)
    ELSE IF InScopeFile(role, scope) THEN {role} ELSE {}

\* Tags and scope of a skill; a skill with no tags of its own has the role's.
mergeTags(modifiers, role, scope) ==
    LET yaml   == IF InScopeFile(role, scope) THEN scope.roles[role] ELSE {}
        merged == MergeModifiers(yaml, modifiers)
        barred == /\ modifiers # <<>>
                  /\ ~Wildcard(role)
                  /\ InScopeFile(role, scope)
                  /\ tagIntersection(merged, yaml) = {}
    IN  [tags |-> merged, scope |-> IF barred THEN {} ELSE ScopeOfRole(role, scope)]

\* The filter both walks apply.
IsOffered(role, scope, merged) ==
    \/ Wildcard(role)
    \/ scope.version > 0 /\ Unscoped(scope)
    \/ merged.scope # {}

SkillSummary(source, i, skill, role, scope) ==
    LET merged == mergeTags(skill.tags, role, scope)
    IN  [source |-> source, file |-> i, name |-> skill.name,
         tags |-> merged.tags, scope |-> merged.scope]

\* Every readable skill of the workspace that passes the filter, whatever its name.
walkLocalSkills(read, role, scope) ==
    {SkillSummary("local", i, skills.local[i], role, scope) :
        i \in {j \in DOMAIN skills.local :
                 /\ <<"local", j>> \in read
                 /\ IsOffered(role, scope, mergeTags(skills.local[j].tags, role, scope))}}

\* The repositories are a Go map, so they come in any order; a name that has been
\* offered is passed over, one that was only filtered out is not.
walkExternalSkills(read, role, scope, localNames, order) ==
    LET Passes(j) == /\ <<"external", j>> \in read
                     /\ skills.external[j].name \notin localNames
                     /\ IsOffered(role, scope, mergeTags(skills.external[j].tags, role, scope))
        First(j)  == \A k \in DOMAIN skills.external :
                        Passes(k) /\ skills.external[k].name = skills.external[j].name
                            => order[j] <= order[k]
    IN  {SkillSummary("external", j, skills.external[j], role, scope) :
            j \in {k \in DOMAIN skills.external : Passes(k) /\ First(k)}}

Files == {<<"scope", 1>>} \cup {<<"local", i>> : i \in DOMAIN skills.local}
                          \cup {<<"external", i>> : i \in DOMAIN skills.external}

Orders == {f \in [DOMAIN skills.external -> DOMAIN skills.external] : IsInjective(f)}

BuildSkills(role, read, order) ==
    LET scope == LoadScope(<<"scope", 1>> \in read)
        local == walkLocalSkills(read, role, scope)
    IN  local \cup walkExternalSkills(read, role, scope, {s.name : s \in local}, order)

\* Bound: one request, as nothing of a request is kept.
handleBrokerListSkills ==
    /\ skills.answer = NoAnswerYet
    /\ \E role \in Role, read \in SUBSET Files, order \in Orders :
          skills' = [skills EXCEPT !.answer =
                       [role |-> role, read |-> read, offered |-> BuildSkills(role, read, order)]]

SkillsNext == handleBrokerListSkills
SkillsSpec == SkillsInit /\ [][SkillsNext]_skills

-----------------------------------------------------------------------------
SkillsTypeOK ==
    /\ skills.answer.role \in Role \cup {"none"}
    /\ skills.answer.read \subseteq Files
    /\ \A s \in skills.answer.offered : <<s.source, s.file>> \in skills.answer.read

\* The last word of a skill on a tag: the last modifier that names it.
LastWord(modifiers, t, sign) ==
    \E i \in DOMAIN modifiers :
       /\ modifiers[i] = [sign |-> sign, tag |-> t]
       /\ \A j \in DOMAIN modifiers : modifiers[j].tag = t => j <= i

\* What a role should see under a scope file that counts (version 1 and up).
Entitled(role, scope, skill) ==
    \/ Wildcard(role) \/ Unscoped(scope)
    \/ /\ InScopeFile(role, scope)
       /\ \/ skill.tags = <<>>
          \/ \E t \in scope.roles[role] : ~LastWord(skill.tags, t, "-")

\* A role is offered a skill of the workspace exactly when the scope file lists no
\* role, or lists this one with a value and the skill leaves it one of its tags, and
\* an external one when besides no other skill offered has its name.  The skill's last
\* word on a tag decides, in whatever order it adds and takes away (skills.go:260-301,
\* :448).
OfferedByScope ==
    LET answer == skills.answer
        scope  == LoadScope(<<"scope", 1>> \in answer.read)
        Seen(source, i) == \E s \in answer.offered : s.source = source /\ s.file = i
        Names(source)   == {s.name : s \in {u \in answer.offered : u.source = source}}
    IN  answer.role # "none" /\ scope.version > 0 =>
          /\ \A i \in DOMAIN skills.local : <<"local", i>> \in answer.read =>
                (Seen("local", i) <=> Entitled(answer.role, scope, skills.local[i]))
          /\ \A i \in DOMAIN skills.external : <<"external", i>> \in answer.read =>
                IF Entitled(answer.role, scope, skills.external[i])
                THEN skills.external[i].name \in Names("local") \cup Names("external")
                ELSE ~Seen("external", i)
          /\ \A s, u \in answer.offered : s # u /\ s.source = "external" => s.name # u.name
=============================================================================
