------------------------------ MODULE Initramfs ------------------------------
(***************************************************************************)
(* The archive of files the kernel boots with: what                        *)
(* scripts/mkinitramfs.py lays out and what fs_mount_initramfs (fs.c)      *)
(* reads from it.  Addresses are in bytes from the start of the archive,   *)
(* with the real header length and padding.                                *)
(*                                                                         *)
(* An entry is its name's role (the directory itself, the trailer, a path  *)
(* that the kernel already made, a new path), the characters and the extra *)
(* UTF-8 bytes of the name, whether it is a directory, and its data.       *)
(***************************************************************************)
EXTENDS Integers, Sequences

CONSTANT Trees             \* contents of the root directory, in sorted order

HeaderLen == 110

align4(n) == ((n + 3) \div 4) * 4

\* The header's name size counts the characters and the final 0.
namesz(e) == e.chars + 1

Dot == [name |-> "dot", chars |-> 1, extra |-> 0, dir |-> TRUE, data |-> <<>>]
Trailer == [name |-> "trailer", chars |-> 10, extra |-> 0, dir |-> FALSE, data |-> <<>>]

emit_tree(tree) == <<Dot>> \o tree \o <<Trailer>>

\* Mutant: the data is not padded.
Written_tight(e) == align4(HeaderLen + namesz(e)) + e.extra + Len(e.data)

\* The bytes write_entry writes.  The padding follows from the characters, the
\* name is written in UTF-8.
Written(e) == align4(HeaderLen + namesz(e)) + e.extra + align4(Len(e.data))

\* Where entry i of an archive begins; one past the last is its size.
Begins(archive) ==
    LET at[i \in 1..(Len(archive) + 1)] == IF i = 1 THEN 0 ELSE at[i - 1] + Written(archive[i - 1])
    IN  at
Size(archive) == Begins(archive)[Len(archive) + 1]

\* The entry whose header is at the cursor: none if the magic is not there.
HeadersAt(archive, cursor) == {i \in 1..Len(archive) : Begins(archive)[i] = cursor}

\* Where the reader looks for the data, and for the next header.
DataAt(e, cursor) == cursor + align4(HeaderLen + namesz(e))
AfterEntry(e, cursor) == DataAt(e, cursor) + align4(Len(e.data))

\* The bytes it finds there: extra bytes early, which are padding.
ReadData(e) == [k \in 1..Len(e.data) |-> IF k <= e.extra THEN 0 ELSE e.data[k - e.extra]]

\* fs_mount_initramfs returns at this cursor: at the trailer, at the limit, or
\* at an entry that is damaged or cut.
MountReturns(archive, cursor, limit) ==
    \/ cursor + HeaderLen > limit
    \/ HeadersAt(archive, cursor) = {}
    \/ \E i \in HeadersAt(archive, cursor) :
          LET e == archive[i]
          IN  \/ cursor + HeaderLen + namesz(e) > limit
              \/ e.name = "trailer"
              \/ e.name # "dot" /\ DataAt(e, cursor) + Len(e.data) > limit
=============================================================================
