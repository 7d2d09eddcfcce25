----------------------------- MODULE SkillVersions -----------------------------
(***************************************************************************)
(* One skill of the studio and its versions (lib/studio/skills.ts).  An    *)
(* edit reads the row, then in a transaction writes every field of it, the *)
(* unchanged ones as they were read, without looking whether another edit  *)
(* came between; a change of the schema or the handler records a version.  *)
(* A version number stands for one of three parts.                         *)
(***************************************************************************)
EXTENDS Callers

CONSTANTS Schema, MaxVersion

ASSUME SkillAssumption == MaxVersion \in Nat \ {0}

VARIABLES
  skill,      \* the row: version and inputschema
  versions,   \* skillversions: version and the schema it brought
  editCall    \* editCall[p]: the row edit p read and what it will write

SkillVars == <<skill, versions, editCall>>

NoEdit == [at |-> "idle"]
SkillRows == [version : 1..MaxVersion, schema : Schema]
Edits == [at : {"write"}, read : SkillRows, schema : Schema, versioned : BOOLEAN]

\* createSkill.
SkillInit ==
  /\ skill \in [version : {1}, schema : Schema]
  /\ versions = {skill}
  /\ editCall = [p \in Proc |-> NoEdit]

BumpVersion(v) == v + 1

BeginEdit(p, schema, versioned) ==
  /\ editCall[p] = NoEdit
  /\ versioned => skill.version < MaxVersion
  /\ editCall' = [editCall EXCEPT ![p] = [at |-> "write", read |-> skill, schema |-> schema, versioned |-> versioned]]
  /\ UNCHANGED <<skill, versions>>

\* A new handler makes a version that brings the schema as it is.
UpdateSkill(p, schema, handler) == BeginEdit(p, schema, handler \/ schema # skill.schema)

RollbackSkill(p, v) == BeginEdit(p, v.schema, TRUE)

Written(c) ==
  [version |-> IF c.versioned THEN BumpVersion(c.read.version) ELSE c.read.version, schema |-> c.schema]

\* Slip: only the fields that change are written.
WriteChanged(p) ==
  LET c == editCall[p] IN
  /\ c.at = "write"
  /\ skill' = IF c.versioned THEN Written(c) ELSE [skill EXCEPT !.version = c.read.version]
  /\ versions' = IF c.versioned THEN versions \cup {Written(c)} ELSE versions
  /\ editCall' = [editCall EXCEPT ![p] = NoEdit]

WriteSkill(p) ==
  LET c == editCall[p] IN
  /\ c.at = "write"
  /\ skill' = Written(c)
  /\ versions' = IF c.versioned THEN versions \cup {Written(c)} ELSE versions
  /\ editCall' = [editCall EXCEPT ![p] = NoEdit]

SkillNext ==
  \E p \in Proc :
    \/ \E s \in Schema, handler \in BOOLEAN : UpdateSkill(p, s, handler)
    \/ \E v \in versions : RollbackSkill(p, v)
    \/ WriteSkill(p)

SkillSpec == SkillInit /\ [][SkillNext]_SkillVars

------------------------------------------------------------------------------
(***************************************************************************)
(* Properties.                                                             *)
(***************************************************************************)
SkillTypeOK ==
  /\ skill \in SkillRows /\ versions \subseteq SkillRows
  /\ editCall \in [Proc -> Edits \cup {NoEdit}]

\* The schema in force is always one the history records under the version in
\* force, so that a rollback can bring it back, even though two edits that read
\* the same row lose one of them and take one version number twice.
SchemaIsRecorded == skill \in versions

==============================================================================
