------------------------------ MODULE HclMerge ------------------------------
(***************************************************************************)
(* The atlas.hcl file the CLI runs with: blocks that the operator makes of *)
(* the resource, into which the custom configuration of the user is        *)
(* merged.  Before and between the renders the controllers search the      *)
(* custom configuration for what decides what they do: its dev database,   *)
(* its targets, its lint policy, and what must not be in it.  Rendering    *)
(* relabels env blocks of the custom configuration in place.               *)
(*                                                                         *)
(* A block is a record; the file is one, too.  A block that is appended is *)
(* a copy: that the file shares it with the custom configuration is left   *)
(* out.                                                                    *)
(***************************************************************************)
EXTENDS Integers, Sequences

CONSTANTS
  Uses,            \* Subset of {"schema", "scan"}: the controller that renders.
  SchemaConfigs,   \* The custom configurations of an AtlasSchema.
  ScanConfigs      \* Those of an AtlasSecurityScan.

VARIABLES
  use,     \* The controller.
  given,   \* The custom configuration.
  config,  \* The parsed configuration, changed in place by the renders.
  desired, \* The resource names a desired schema.
  policy,  \* data.Policy.Lint
  devURL,  \* data.DevURL, or "none".
  target,  \* What targetURL said when the schema was inspected.
  file,    \* The file that was rendered.
  stage    \* How far the controller is.

vars == <<use, given, config, desired, policy, devURL, target, file, stage>>

EnvName == "run"
NoLabel == ""

-----------------------------------------------------------------------------
(* Blocks.                                                                 *)

None == [x \in {} |-> x]

block(type, label, attrs, blocks) ==
  [type |-> type, label |-> label, attrs |-> attrs, blocks |-> blocks]

NewFile == block("file", NoLabel, None, <<>>)

attribute(name, value) == [n \in {name} |-> value]

\* The attributes of dst once those of src are set.
overriding(src, dst) ==
  [n \in DOMAIN src \cup DOMAIN dst |-> IF n \in DOMAIN src THEN src[n] ELSE dst[n]]

has(b, name) == name \in DOMAIN b.attrs

without(b, name) ==
  [b EXCEPT !.attrs = [n \in DOMAIN b.attrs \ {name} |-> b.attrs[n]]]

\* The first index that satisfies P, or 0.
first(s, P(_)) == IF \E i \in DOMAIN s : P(s[i])
                  THEN CHOOSE i \in DOMAIN s : P(s[i]) /\ \A j \in 1..i-1 : ~P(s[j])
                  ELSE 0

\* Mutant: only the labels are compared.
searchExact(parent, type, label) ==
  first(parent.blocks, LAMBDA b : b.type = type /\ b.label = label)

\* searchBlock: by type and labels; an env block otherwise the unlabelled one.
searchBlock(parent, type, label) ==
  LET i == first(parent.blocks, LAMBDA b : b.type = type /\ b.label = label)
  IN  IF i = 0 /\ type = "env"
      THEN first(parent.blocks, LAMBDA b : b.type = type /\ b.label = NoLabel)
      ELSE i

found(parent, type, label) == searchBlock(parent, type, label) # 0
get(parent, type, label) == parent.blocks[searchBlock(parent, type, label)]

\* evaluateEnvBlock: an env block named atlas.env gets the label of the env that
\* runs.  The walk ends at the first env block that has a label.
evaluateEnvBlock(body, envName) ==
  LET envs == {i \in DOMAIN body.blocks : body.blocks[i].type = "env"}
      open(i) == /\ i \in envs /\ envName # NoLabel
                 /\ has(body.blocks[i], "name") /\ body.blocks[i].attrs["name"] = "atlas.env"
                 /\ \A j \in envs : j <= i => body.blocks[j].label = NoLabel
  IN  [body EXCEPT !.blocks =
         [i \in DOMAIN body.blocks |->
            IF open(i) THEN [without(body.blocks[i], "name") EXCEPT !.label = envName]
            ELSE body.blocks[i]]]

\* mergeBlock and the loop of mergeBlocks: an attribute of src replaces that of
\* dst, blocks of the same type and label are merged, others are appended.  Below
\* merges what is in them: a block of the file holds blocks that hold blocks, and
\* no more.
taking(d, b) == [d EXCEPT !.attrs = overriding(b.attrs, @)]

placed(Below(_, _), d, b) ==
  LET i == searchBlock(d, b.type, b.label)
  IN  IF i = 0 THEN [d EXCEPT !.blocks = Append(@, b)]
      ELSE [d EXCEPT !.blocks[i] = Below(taking(@, b), b)]

mergedBy(Below(_, _), dst, src) ==
  LET merged[k \in 0..Len(src.blocks)] ==
        IF k = 0 THEN dst ELSE placed(Below, merged[k - 1], src.blocks[k])
  IN  merged[Len(src.blocks)]

mergeInnermost(dst, src) == dst
mergeInLint(dst, src)    == mergedBy(mergeInnermost, dst, src)
mergeInEnv(dst, src)     == mergedBy(mergeInLint, dst, src)
mergeInFile(dst, src)    == mergedBy(mergeInEnv, dst, src)

mergeBlocks(dst, src, envName) ==
  mergeInFile(evaluateEnvBlock(dst, envName), evaluateEnvBlock(src, envName))

-----------------------------------------------------------------------------
(* What the AtlasSchema controller asks of the custom configuration.       *)

hasEnv == found(config, "env", EnvName)
env == get(config, "env", EnvName)

hasDevURL  == devURL # "none" \/ (hasEnv /\ has(env, "dev"))
hasTargets == hasEnv /\ has(env, "for_each")
targetURL  == IF hasEnv /\ has(env, "src") THEN "env://src" ELSE "env://schema.src"

envLint == hasEnv /\ found(env, "lint", NoLabel)
lint == get(env, "lint", NoLabel)

hasLint(p) == p.lint \/ envLint

\* Mutant: a lint block outside the env block counts.
hasLintDestructiveGlobal(p) ==
  \/ p.lint /\ p.destructive # "unset"
  \/ /\ envLint /\ found(lint, "destructive", NoLabel)
     /\ has(get(lint, "destructive", NoLabel), "error")
  \/ hasEnv /\ ~envLint /\ found(config, "lint", NoLabel)

hasLintDestructive(p) ==
  \/ p.lint /\ p.destructive # "unset"
  \/ /\ envLint /\ found(lint, "destructive", NoLabel)
     /\ has(get(lint, "destructive", NoLabel), "error")

hasLintReview(p) ==
  \/ p.lint /\ p.review # "unset"
  \/ envLint /\ has(lint, "review")

enableDestructive(p) ==
  IF hasLint(p) /\ hasLintDestructive(p) THEN p
  ELSE [p EXCEPT !.lint = TRUE, !.destructive = "true"]

setLintReview(p) ==
  IF hasLint(p) /\ hasLintReview(p) THEN p
  ELSE [p EXCEPT !.lint = TRUE, !.review = "ERROR"]

\* asBlocks: the blocks made of the resource.
set(name, value) == IF value \in {"unset", "none"} THEN None ELSE attribute(name, value)

asBlocks(p) ==
  LET destructive == block("destructive", NoLabel, attribute("error", p.destructive), <<>>)
      lintBlock == block("lint", NoLabel, set("review", p.review),
                         IF p.destructive = "unset" THEN <<>> ELSE <<destructive>>)
      schema == block("schema", NoLabel, attribute("src", "desired"), <<>>)
  IN  [NewFile EXCEPT !.blocks =
         <<block("env", EnvName, overriding(attribute("url", "spec"), set("dev", devURL)),
                 (IF desired THEN <<schema>> ELSE <<>>)
                 \o (IF p.lint THEN <<lintBlock>> ELSE <<>>))>>]

-----------------------------------------------------------------------------
(* What a scan must not find in the custom configuration.                  *)

\* checkPolicyBlock: policyAttrs of a security block and of cve in it.
gradesScan(b) ==
  \/ has(b, "min_severity") \/ has(b, "fail_on")
  \/ \E i \in DOMAIN b.blocks :
       b.blocks[i].type = "cve" /\ (has(b.blocks[i], "min_severity") \/ has(b.blocks[i], "ignore"))

hidesFindings(b) ==
  \/ has(b, "exclude")
  \/ \E i \in DOMAIN b.blocks : b.blocks[i].type = "security" /\ gradesScan(b.blocks[i])

\* Mutant: an env block without a label is not the one that runs.
checkPolicyLabelled(b) ==
  \/ b.type = "security" /\ gradesScan(b)
  \/ b.type = "env" /\ b.label = EnvName /\ hidesFindings(b)

\* checkPolicy, of one block of the configuration.
checkPolicy(b) ==
  \/ b.type = "security" /\ gradesScan(b)
  \/ b.type = "env" /\ b.label \in {NoLabel, EnvName} /\ hidesFindings(b)

-----------------------------------------------------------------------------
(* Custom configurations.                                                  *)

inside(b) == {b.blocks[i] : i \in DOMAIN b.blocks}

IsBlock(b) ==
  /\ b \in [type : STRING, label : STRING, attrs : [DOMAIN b.attrs -> STRING],
            blocks : Seq(inside(b))]
  /\ DOMAIN b.attrs \subseteq STRING

IsConfig(c) ==
  /\ IsBlock(c)
  /\ \A b \in inside(c) :
       /\ IsBlock(b)
       /\ \A e \in inside(b) :
            IsBlock(e) /\ \A l \in inside(e) : IsBlock(l) /\ l.blocks = <<>>

ConstantsOK == \A c \in SchemaConfigs \cup ScanConfigs : IsConfig(c)

Policies == [lint : {FALSE}, destructive : {"unset"}, review : {"unset"}]
       \cup [lint : {TRUE}, destructive : {"unset", "false"}, review : {"unset", "ALWAYS"}]

-----------------------------------------------------------------------------
Init ==
  /\ use \in Uses
  /\ given \in (IF use = "schema" THEN SchemaConfigs ELSE ScanConfigs)
  /\ config = given
  /\ policy \in (IF use = "schema" THEN Policies
                 ELSE [lint : {FALSE}, destructive : {"unset"}, review : {"unset"}])
  /\ desired \in (IF use = "schema" THEN BOOLEAN ELSE {FALSE})
  /\ devURL = "none" /\ target = "none" /\ file = NewFile /\ stage = "new"

\* extractData and hasDevURL: several targets are refused, and a managed dev
\* database is asked for when there is no other.
ExtractSchema ==
  /\ stage = "new" /\ use = "schema"
  /\ IF hasTargets THEN stage' = "refused" /\ UNCHANGED devURL
     ELSE /\ stage' = "extracted"
          /\ devURL' = IF hasDevURL THEN "none" ELSE "managed"
  /\ UNCHANGED <<use, given, config, desired, policy, target, file>>

\* extractData of a scan.
ExtractScan ==
  /\ stage = "new" /\ use = "scan"
  /\ stage' = IF \E i \in DOMAIN config.blocks : checkPolicy(config.blocks[i])
              THEN "refused" ELSE "extracted"
  /\ UNCHANGED <<use, given, config, desired, policy, devURL, target, file>>

\* render: the errors are those for a dev database and a desired state that the
\* env that runs lacks.
rendered(p) == mergeBlocks(asBlocks(p), config, EnvName)

complete(f) ==
  LET e == get(f, "env", EnvName)
  IN  use = "schema" => /\ has(e, "dev")
                        /\ found(e, "schema", NoLabel) \/ has(e, "src")

Render ==
  /\ stage = "extracted"
  /\ file' = rendered(policy) /\ config' = evaluateEnvBlock(config, EnvName)
  /\ stage' = IF complete(file') THEN "rendered" ELSE "failed"
  /\ UNCHANGED <<use, given, desired, policy, devURL, target>>

\* The schema is inspected at targetURL.
Inspect ==
  /\ stage = "rendered" /\ use = "schema"
  /\ target' = targetURL /\ stage' = "inspected"
  /\ UNCHANGED <<use, given, config, desired, policy, devURL, file>>

\* editAtlasHCL, for a resource that is connected to Atlas Cloud.
EditAtlasHCL ==
  /\ stage = "inspected"
  /\ policy' = setLintReview(enableDestructive(policy))
  /\ file' = rendered(policy') /\ config' = evaluateEnvBlock(config, EnvName)
  /\ stage' = "edited"
  /\ UNCHANGED <<use, given, desired, devURL, target>>

Next == ExtractSchema \/ ExtractScan \/ Render \/ Inspect \/ EditAtlasHCL
Spec == Init /\ [][Next]_vars

-----------------------------------------------------------------------------
(* Properties.                                                             *)

runs == get(file, "env", EnvName)

\* Env blocks as the documentation has them: one without a label is named
\* atlas.env, and no labelled one precedes it.
IsOrderly(c) ==
  \A i \in DOMAIN c.blocks :
    LET b == c.blocks[i]
    IN  b.type = "env" /\ b.label = NoLabel =>
          /\ has(b, "name") /\ b.attrs["name"] = "atlas.env"
          /\ \A j \in 1..i-1 : c.blocks[j].type # "env" \/ c.blocks[j].label = NoLabel

mayRun(b) == b.type = "env" /\ b.label \in {NoLabel, EnvName}

once(b, type) == \A i, j \in DOMAIN b.blocks :
  b.blocks[i].type = type /\ b.blocks[j].type = type => i = j

\* At most one env block may be the one that runs (the helpers read the first, and
\* the file gets the attributes of all), and what the policy reads is not
\* repeated in it.
HasOneEnv(c) ==
  /\ \A i, j \in DOMAIN c.blocks : mayRun(c.blocks[i]) /\ mayRun(c.blocks[j]) => i = j
  /\ \A b \in inside(c) : mayRun(b) =>
       once(b, "lint") /\ \A e \in inside(b) : e.type = "lint" => once(e, "destructive")

WellOrdered == IsOrderly(given) /\ HasOneEnv(given)

\* A configuration that checkPolicy lets pass decides nothing of what the scan
\* reports, whichever of its env blocks becomes the one that runs.
PolicyIsTheResources ==
  use = "scan" /\ stage = "rendered" =>
    /\ ~hidesFindings(runs)
    /\ \A i \in DOMAIN file.blocks : file.blocks[i].type = "security" => ~gradesScan(file.blocks[i])

\* What the helpers found in the custom configuration, before it was relabelled
\* and after, is what the env that runs has: a dev database and one target, and
\* targetURL names an attribute that is there.
HelpersSeeTheFile ==
  use = "schema" /\ WellOrdered =>
    /\ stage = "failed" => ~desired /\ ~has(runs, "src")
    /\ stage \in {"rendered", "inspected", "edited"} => ~has(runs, "for_each") /\ has(runs, "dev")
    /\ stage \in {"inspected", "edited"} => (target = "env://src" <=> has(runs, "src"))

\* A connected resource always runs with a review policy and a value for
\* destructive.error: the one of the custom configuration if there is one, else
\* that of the resource, else the default that editAtlasHCL fills in (ERROR and
\* true, for data.Policy must not be left unset).
ConnectedIsReviewed ==
  stage = "edited" /\ WellOrdered =>
    LET own == get(runs, "lint", NoLabel)
        destructive(l) == get(l, "destructive", NoLabel)
        custom(l) == found(l, "destructive", NoLabel) /\ has(destructive(l), "error")
    IN  /\ found(runs, "lint", NoLabel) /\ has(own, "review") /\ custom(own)
        /\ own.attrs["review"] = IF envLint /\ has(lint, "review")
                                 THEN lint.attrs["review"] ELSE policy.review
        /\ destructive(own).attrs["error"] = IF envLint /\ custom(lint)
                                             THEN destructive(lint).attrs["error"]
                                             ELSE policy.destructive

\* The same, whatever the order and the number of the env blocks.
AnyOrderIsReviewed ==
  stage = "edited" => found(runs, "lint", NoLabel) /\ has(get(runs, "lint", NoLabel), "review")

\* "Atlas has been asked to review the changes ALWAYS" is read from
\* data.Policy.Lint, which must be there.
AlwaysIsReadable == stage = "edited" => policy.lint
=============================================================================
