-------------------------------- MODULE Cwd --------------------------------
(***************************************************************************)
(* A task's working directory on top of the tree of TmpFs.  The kernel     *)
(* keeps it as text: normalize_path puts a relative path behind that text, *)
(* . and .. included, and chdir stores the result in the 128 bytes of the  *)
(* task.  So the text only gets longer on the way from directory to        *)
(* directory, and what it does not have room for is cut off.               *)
(*                                                                         *)
(* A text is a sequence of components, each with its length, and perhaps a *)
(* slash at the end.  A name that was cut is the name of no entry.         *)
(***************************************************************************)
EXTENDS TmpFs, FiniteSets

CONSTANTS
    PathMax,               \* MGCORE_PATH_MAX - 1 characters
    CwdMax,                \* sizeof(cwd) - 1 characters
    Dirs,                  \* the paths chdir is called with
    CwdNodes               \* bound on the nodes while a task is off the root

ASSUME CwdAssumption ==
    /\ PathMax \in Nat /\ CwdMax \in 1..PathMax /\ CwdNodes \in Nat
    /\ Dirs \subseteq [comps : Seq(Names \cup {".", ".."}), slash : BOOLEAN]

VARIABLES
    cwd,                   \* task_current()->cwd
    here                   \* history: the directory it was set to, -1 once it is lost

cwdVars == <<cwd, here>>

Text == [comps : Seq(Names \cup {".", "..", "cut"}), slash : BOOLEAN]
Root == [comps |-> <<>>, slash |-> FALSE]

CwdTypeOK == cwd \in Text /\ here \in NodeOrNone

CwdInit == Init /\ cwd = Root /\ here = 0

Width(c) == CASE c = "dev" -> 3 [] c = "null" -> 4 [] c = ".." -> 2 [] OTHER -> 1

\* The characters of the first k components, each with the slash before it.
WidthOf(comps) ==
    LET w[k \in 0..Len(comps)] == IF k = 0 THEN 0 ELSE w[k - 1] + 1 + Width(comps[k])
    IN  w

\* What max characters hold of a text.  Half of ".." is ".".
Cut(text, max) ==
    LET w == WidthOf(text.comps)
        whole == CHOOSE k \in DOMAIN w : w[k] <= max /\ \A j \in DOMAIN w : w[j] <= max => j <= k
        left == max - w[whole] - 1
        kept == SubSeq(text.comps, 1, whole)
    IN  IF whole = Len(text.comps) THEN [text EXCEPT !.slash = text.slash /\ left >= 0]
        ELSE IF left <= 0 THEN [comps |-> kept, slash |-> left = 0 /\ kept # <<>>]
        ELSE [comps |-> Append(kept, IF text.comps[whole + 1] = ".." THEN "." ELSE "cut"),
              slash |-> FALSE]

\* The text a path stands for: absolute, or put behind the working directory.
\* The empty path is the root.
normalize_path(path, absolute) ==
    Cut([comps |-> IF absolute \/ path.comps = <<>> THEN path.comps ELSE cwd.comps \o path.comps,
         slash |-> path.slash],
        PathMax)

\* Mutant: the path is stored as it was given.
fs_chdir_path_given(path, absolute) ==
    LET resolved == normalize_path(path, absolute)
        id == resolve_path(resolved.comps)
    IN  /\ id # -1 /\ type[id] = "DIR"
        /\ cwd' = Cut(path, CwdMax)
        /\ here' = IF Cut(resolved, CwdMax) = resolved THEN id ELSE -1

\* fs_chdir_path looks the whole text up and stores what there is room for.
fs_chdir_path(path, absolute) ==
    LET resolved == normalize_path(path, absolute)
        id == resolve_path(resolved.comps)
    IN  /\ id # -1 /\ type[id] = "DIR"
        /\ cwd' = Cut(resolved, CwdMax)
        /\ here' = IF cwd' = resolved THEN id ELSE -1

Chdir ==
    /\ \E path \in Dirs, absolute \in BOOLEAN : fs_chdir_path(path, absolute)
    /\ cwd' # Root => Cardinality(Live) <= CwdNodes
    /\ UNCHANGED vars

\* The directories the text leads through.
Passed == {resolve_path(SubSeq(cwd.comps, 1, k)) : k \in 1..Len(cwd.comps)}

\* Creation and removal; nobody looks whether a directory is in use.
Change ==
    /\ Next
    /\ cwd # Root => Cardinality(Live') <= CwdNodes
    /\ here' = IF \E n \in Passed : n # -1 /\ type'[n] = "NONE" THEN -1 ELSE here
    /\ UNCHANGED cwd

CwdNext == Change \/ Chdir

CwdSpec == CwdInit /\ [][CwdNext]_<<vars, cwdVars>>

-----------------------------------------------------------------------------
(* Properties.                                                             *)

\* The working directory's text leads to the directory that chdir found, by
\* whatever detours it was reached and whatever is created or removed
\* elsewhere.  It stops doing so only when it was too long to be stored, or when
\* a directory that it leads through is removed.
CwdHolds == here # -1 => resolve_path(cwd.comps) = here /\ type[here] = "DIR"
=============================================================================
