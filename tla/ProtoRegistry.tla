---------------------------- MODULE ProtoRegistry ----------------------------
(***************************************************************************)
(* The generator of the registrations of messages                          *)
(* (internal/infra/actor/protocol/tools/gen_register), whose output a game *)
(* server and a gateway run when they start.                               *)
(*                                                                         *)
(* A name of a message is a number, its place in the order of strings.  A  *)
(* proto file is the sequence of its lines, of which only those count that *)
(* declare a message, at the start of the line or inside another message.  *)
(* A directory is the sequence of its proto files in the order of their    *)
(* names.                                                                  *)
(***************************************************************************)
EXTENDS Integers, Sequences, SequencesExt

CONSTANTS
  SuffixOf,   \* what each name of a message ends with
  CommonFor,  \* commonMessageRegistrations: names with their targets
  MaxLines,   \* bound: lines of a proto file
  MaxFiles    \* bound: proto files of a directory

Names == DOMAIN SuffixOf
Targets == {"c2s", "s2s"}

ASSUME ProtoAssumption ==
  /\ Names \subseteq Nat /\ DOMAIN CommonFor \subseteq Nat
  /\ CommonFor \in [DOMAIN CommonFor -> SUBSET Targets]
  /\ IsFiniteSet(DOMAIN CommonFor) /\ {MaxLines, MaxFiles} \subseteq Nat

ProtoFiles == BoundedSeq([atStart : BOOLEAN, name : Names], MaxLines)
Directories == BoundedSeq(ProtoFiles, MaxFiles)

isRegistrableMessageName(name) == SuffixOf[name] \in {"Req", "Resp", "Push", "Ntf"}

InsertName(sorted, name) ==
  InsertAt(sorted, CHOOSE i \in 1 .. Len(sorted) + 1 :
                     /\ \A j \in 1 .. i - 1 : sorted[j] <= name
                     /\ i <= Len(sorted) => sorted[i] > name, name)

\* sort.Strings
Sorted(names) == FoldLeft(InsertName, <<>>, names)

commonMessagesFor(target) ==
  Sorted(SetToSeq({name \in DOMAIN CommonFor : target \in CommonFor[name]}))

\* The regular expression finds a message at the start of a line.
Find(names, line) == IF line.atStart THEN Append(names, line.name) ELSE names
parseProtoMessageNames(file) == FoldLeft(Find, <<>>, file)

\* Mutant: names that were seen are not skipped.
CollectAgain(names, name) ==
  IF isRegistrableMessageName(name) THEN Append(names, name) ELSE names

\* A name is taken unless it is not registrable, or was seen.
Collect(names, name) ==
  IF isRegistrableMessageName(name) /\ name \notin ToSet(names)
  THEN Append(names, name) ELSE names

CollectFile(names, file) == FoldLeft(Collect, names, parseProtoMessageNames(file))
parseRegistrableMessageNamesInDir(dir) == Sorted(FoldLeft(CollectFile, <<>>, dir))

\* init of a register.go: the calls of register, each with its package.
generateRegisterFile(pkg, msgNames, commonMsgNames) ==
  LET calls(p, names) == [i \in DOMAIN names |-> [pkg |-> p, name |-> names[i]]]
  IN  calls("common", commonMsgNames) \o calls(pkg, msgNames)

\* main: the file of one target.
RegisterFile(target, dir) ==
  generateRegisterFile(target, parseRegistrableMessageNamesInDir(dir), commonMessagesFor(target))
=============================================================================
