------------------------------- MODULE Savefile -------------------------------
(***************************************************************************)
(* savefile.c: the table of users as text.  Every user is two lines, its   *)
(* name and its followers, each of these followed by a comma; a line is a  *)
(* sequence of names here.  read_savefile has a buffer for each of the two *)
(* and "will break if we have more than 80 followers": fgets takes what    *)
(* the buffer holds of a line and leaves the rest to the next fgets.       *)
(***************************************************************************)
EXTENDS Naturals, Sequences

CONSTANTS
    NameRoom, \* the names the buffer username holds, and
    ListRoom  \* the buffer followers

ASSUME SavefileAssumption == NameRoom \in Nat \ {0} /\ ListRoom \in Nat \ {0}

\* save_savefile, the lines of one user.
SavedUser(u, followers) == <<<<u>>, followers>>

\* fgets: what a buffer takes of a line, some names of which are read, ...
Piece(lines, at, room) ==
    LET rest == SubSeq(lines[at.line], at.names + 1, Len(lines[at.line]))
    IN  IF Len(rest) <= room THEN rest ELSE SubSeq(rest, 1, room)

\* ... and where the next one goes on.
Past(lines, at, room) ==
    IF at.names + room < Len(lines[at.line]) THEN [at EXCEPT !.names = @ + room]
    ELSE [line |-> at.line + 1, names |-> 0]

\* The loop of read_savefile ends with the file or at an empty line.
NoMore(lines, at) == at.line > Len(lines) \/ Piece(lines, at, NameRoom) = <<>>

\* The user that one turn of the loop inserts.  Names with commas are no user's
\* name.  Without a second line the buffer is as strtok left it: it holds the
\* first of the followers before.
Read(lines, at, before) ==
    LET name == Piece(lines, at, NameRoom)
        list == Past(lines, at, NameRoom)
    IN  [user      |-> IF at.line % 2 = 1 THEN name[1] ELSE name,
         followers |-> IF list.line <= Len(lines) THEN Piece(lines, list, ListRoom)
                       ELSE IF before # <<>> THEN <<before[1]>> ELSE <<>>]

\* Where that turn leaves the file.
ReadTo(lines, at) ==
    LET list == Past(lines, at, NameRoom)
    IN  IF list.line <= Len(lines) THEN Past(lines, list, ListRoom) ELSE list

=============================================================================
