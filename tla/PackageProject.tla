---------------------------- MODULE PackageProject ----------------------------
(* The package commands on one project directory: init, add, remove and      *)
(* build (src/cli/src/cmd/pkg.rs) over dalan.toml, which each command reads, *)
(* changes and writes anew, and dalan.lock (src/compiler/src/package.rs).    *)
(* Commands are run by hand, one at a time, and the file may be edited in    *)
(* between; a command may die while it writes, which leaves an empty file.   *)
(* Only what becomes of the dependencies is kept of a manifest.              *)
EXTENDS Integers, Sequences, FiniteSets, FiniteSetsExt, SequencesExt

CONSTANTS Packages,     \* the names of what one can depend on
          Versions,     \* the versions one can ask for
          HandWritten,  \* the manifests that are written by hand
          MaxCommands   \* bound on the commands and edits

ASSUME MaxCommandsAssumption == MaxCommands \in Nat
\* A manifest is a sequence of lines; what one asks for is a version or in braces.
ASSUME HandWrittenAssumption ==
  \A lines \in HandWritten :
    /\ Len(lines) \in Nat /\ DOMAIN lines = 1..Len(lines)
    /\ \A i \in DOMAIN lines : lines[i].text.form \in {"plain", "table"}

VARIABLES made,      \* whether the directory is there
          toml,      \* the lines of dalan.toml; none as well where there is no file
          lock,      \* dalan.lock, a version for each name
          commands,  \* the commands run so far
          wanted,     \* history: what was last asked for, by name
          built      \* history: what was asked for when the lock was made
projectVars == <<made, toml, lock, commands, wanted, built>>

Nothing == [n \in {} |-> 0]

\* A version is an operator and numbers, of which there may be none.
Star == [op |-> "", num |-> <<>>]
HasEqualsSign(v) == v.op \in {">=", "=="}
\* SemVer::parse: two or three numbers and nothing before them.
IsSemVer(v) == v.op = "" /\ Len(v.num) \in 2..3
SemVer(v) == IF Len(v.num) = 2 THEN Append(v.num, 0) ELSE v.num
\* The derived order of SemVer.
AtMost(a, b) ==
  \/ a = b
  \/ \E i \in DOMAIN a : a[i] < b[i] /\ \A j \in 1..i - 1 : a[j] = b[j]

(* Dependencies, in memory and as text.                                      *)
\* DependencyEntry::default.
AnyEntry == [version |-> Star, optional |-> FALSE, git |-> FALSE]
Plain(v) == [form |-> "plain", version |-> v]
Table(parts) == [form |-> "table", parts |-> parts]
\* The braces of a table stay with its first key and its last value.
WrittenDep(e) ==
  LET version == <<"{ version", e.version>>
  IN CASE e.git -> Table(<<version, <<"git", "url }">>>>)
       [] ~e.git /\ e.optional -> Table(<<version, <<"optional", "true }">>>>)
       [] OTHER -> Plain(e.version)
\* Of the parts with one key the last counts.
Part(parts, key, absent) ==
  LET at == {i \in DOMAIN parts : parts[i][1] = key}
  IN IF at = {} THEN absent ELSE parts[Max(at)][2]
\* parse_dep_entry: whatever has an equals sign in it is taken for a table.
ParsedDep(text) ==
  CASE text.form = "table" ->
         [AnyEntry EXCEPT !.version = Part(text.parts, "version", Star),
                          !.optional = Part(text.parts, "optional", "false") = "true"]
    [] text.form = "plain" /\ HasEqualsSign(text.version) -> AnyEntry
    [] OTHER -> [AnyEntry EXCEPT !.version = text.version]

Line(section, key, text) == [section |-> section, key |-> key, text |-> text]
Heading == Line("package", "name", Plain(Star))
Insert(f, n, x) == [m \in DOMAIN f \cup {n} |-> IF m = n THEN x ELSE f[m]]
\* Mutant of Belongs: a dependency for development is one of the package.
BelongsAlike(l, section) == section = l.section \/ l.section = "dev-dependencies"
\* parse_package_manifest: the lines of a section.  A section of one dependency,
\* [dependencies.x], is one that nobody reads.
Belongs(l, section) == l.section = section
\* Of the lines for one name the last counts.
Section(lines, section) ==
  LET own == {i \in DOMAIN lines : Belongs(lines[i], section)}
      Latest(n) == Max({i \in own : lines[i].key = n})
  IN [n \in {lines[i].key : i \in own} |-> ParsedDep(lines[Latest(n)].text)]
Manifest(lines) == [deps |-> Section(lines, "dependencies"), dev |-> Section(lines, "dev-dependencies")]
\* find_dalan_toml and read_manifest: there is a file and it names the package.
Readable == \E i \in DOMAIN toml : toml[i] = Heading
\* write_manifest; the order of the dependencies is the map's own.
LinesOf(section, texts) ==
  LET names == SetToSeq(DOMAIN texts)
  IN [i \in DOMAIN names |-> Line(section, names[i], texts[names[i]])]
WrittenManifest(m) ==
  <<Heading>> \o LinesOf("dependencies", [n \in DOMAIN m.deps |-> WrittenDep(m.deps[n])])
              \o LinesOf("dev-dependencies", [n \in DOMAIN m.dev |-> Plain(m.dev[n].version)])

ProjectInit ==
  /\ made = FALSE
  /\ toml = <<>>
  /\ lock = Nothing
  /\ commands = 0
  /\ wanted = Nothing
  /\ built = Nothing

Command == commands < MaxCommands /\ commands' = commands + 1
\* fs::write: the file is emptied and then filled, unless the command dies.
Save(lines) == toml' \in {lines, <<>>}

\* cmd_init: it refuses a directory that has anything in it, also what an init
\* that died has left.
InitProject ==
  /\ Command
  /\ ~made
  /\ made' = TRUE
  /\ toml' \in {<<>>, <<Heading>>}
  /\ UNCHANGED <<lock, wanted, built>>

\* What is asked for by a text: its version, whether a reader finds it, and
\* whether one still does after a command has written the manifest anew.  The
\* version of a table is found in any part but the first; it lasts unless the
\* table also says optional there or the version is a comparison.
Named(text) == text.form = "table" /\ \E j \in DOMAIN text.parts : text.parts[j][1] = "version"
Reading(text) ==
  LET version == IF text.form = "plain" THEN text.version ELSE Part(text.parts, "version", Star)
  IN [version |-> version,
      found |-> Named(text) \/ (text.form = "plain" /\ ~HasEqualsSign(version)),
      lasts |-> /\ ~HasEqualsSign(version)
                /\ text.form = "table" => Part(text.parts, "optional", "false") # "true"]
\* What is left of it then.
Rewritten(asked) ==
  [version |-> asked.version, found |-> asked.found /\ asked.lasts, lasts |-> asked.lasts]
\* cmd_add: the entry replaces the one of that name.
AddDep(n, v, git, optional) ==
  LET m == Manifest(toml)
      entry == [version |-> v, optional |-> optional, git |-> git]
  IN /\ Command
     /\ Readable
     /\ Save(WrittenManifest([m EXCEPT !.deps = Insert(@, n, entry)]))
     /\ wanted' = Insert([k \in DOMAIN wanted |-> Rewritten(wanted[k])], n, Reading(WrittenDep(entry)))
     /\ UNCHANGED <<made, lock, built>>
\* cmd_remove: nothing is written where there is nothing to remove.
RemoveDep(n) ==
  LET m == Manifest(toml)
  IN /\ Command
     /\ Readable
     /\ n \in DOMAIN m.deps
     /\ Save(WrittenManifest([m EXCEPT !.deps = [k \in DOMAIN @ \ {n} |-> @[k]]]))
     /\ wanted' = [k \in DOMAIN wanted \ {n} |-> Rewritten(wanted[k])]
     /\ UNCHANGED <<made, lock, built>>

\* DependencyGraph::resolve_all: the newest of the versions a package has.
Newest(available) == CHOOSE v \in available : \A w \in available : AtMost(w, v)
\* cmd_build: the only version that is known of a package is the one asked for,
\* and what is not a version by itself counts as 1.0.0.
Available(e) == {IF IsSemVer(e.version) THEN SemVer(e.version) ELSE <<1, 0, 0>>}
Build ==
  LET deps == Manifest(toml).deps
  IN /\ Command
     /\ Readable
     /\ lock' \in {[n \in DOMAIN deps |-> Newest(Available(deps[n]))], Nothing}
     /\ built' = wanted
     /\ UNCHANGED <<made, toml, wanted>>

\* Somebody edits the manifest by hand.
Edit(lines) ==
  LET names == {lines[i].key : i \in {j \in DOMAIN lines : lines[j].section = "dependencies"}}
      Latest(n) == Max({i \in DOMAIN lines : lines[i].section = "dependencies" /\ lines[i].key = n})
  IN /\ Command
     /\ made
     /\ toml' = lines
     /\ wanted' = [n \in names |-> Reading(lines[Latest(n)].text)]
     /\ UNCHANGED <<made, lock, built>>

ProjectNext ==
  \/ InitProject
  \/ \E n \in Packages, v \in Versions, git \in BOOLEAN, optional \in BOOLEAN : AddDep(n, v, git, optional)
  \/ \E n \in Packages : RemoveDep(n)
  \/ Build
  \/ \E lines \in HandWritten : Edit(lines)

ProjectSpec == ProjectInit /\ [][ProjectNext]_projectVars

\* Whatever commands and edits came before, a manifest that can be read lists the
\* dependencies that were asked for and not removed, no more and no fewer; one
\* that was asked for by its version alone has that version, and any other, with a
\* source, an option or a comparison, stands for every version from its first
\* reading on, but for a table written by hand whose version is not its first
\* part: that one has its version, for good or, if it is optional or compares,
\* until the next command; and the lock has the versions of its build, 1.0.0 for
\* what is no plain version (cmd_add, cmd_remove, cmd_build of pkg.rs;
\* parse_package_manifest and parse_dep_entry of package.rs).
ProjectAsAsked ==
  /\ Readable =>
       LET deps == Manifest(toml).deps
       IN /\ DOMAIN deps = DOMAIN wanted
          /\ \A n \in DOMAIN wanted :
               deps[n].version = IF wanted[n].found THEN wanted[n].version ELSE Star
  /\ \A n \in DOMAIN lock :
       /\ n \in DOMAIN built
       /\ lock[n] = IF built[n].found /\ IsSemVer(built[n].version)
                    THEN SemVer(built[n].version) ELSE <<1, 0, 0>>
=============================================================================
