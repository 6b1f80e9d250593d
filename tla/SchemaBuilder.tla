---------------------------- MODULE SchemaBuilder ----------------------------
(***************************************************************************)
(* How a keeper's NewKeeper builds its store schema: it registers its      *)
(* collections on a collections.SchemaBuilder one after another, in the    *)
(* order of its composite literal, each under a byte prefix, and then      *)
(* calls sb.Build() and panics on the error.  Build is the library's; it   *)
(* is modelled from spec 4.1: overlapping prefixes between two collections *)
(* (one a prefix of the other, equal ones included) are a fatal            *)
(* configuration error raised at construction.                             *)
(*                                                                         *)
(* A prefix is a sequence of one-character strings.                        *)
(***************************************************************************)
EXTENDS Sequences, SequencesExt

CONSTANT
    Layouts   \* the collection layouts the keeper may register: sequences of [name, prefix]

VARIABLES
    layout,      \* the layout this keeper registers
    registered,  \* the collections registered on the builder so far, in order
    phase        \* "building", "built" or "panicked"

schemaVars == <<layout, registered, phase>>

\* Two registered collections whose key ranges intersect.
Overlap(rs) ==
    \E i, j \in DOMAIN rs : i # j /\ IsPrefix(rs[i].prefix, rs[j].prefix)

\* collections.NewMap / NewItem / NewSequence(sb, prefix, ...): the next
\* collection of the literal is added to the builder.
NewCollection ==
    /\ phase = "building"
    /\ Len(registered) < Len(layout)
    /\ registered' = Append(registered, layout[Len(registered) + 1])
    /\ UNCHANGED <<layout, phase>>

\* sb.Build(); a non-nil error makes NewKeeper panic.
Build ==
    /\ phase = "building"
    /\ Len(registered) = Len(layout)
    /\ phase' = IF Overlap(registered) THEN "panicked" ELSE "built"
    /\ UNCHANGED <<layout, registered>>

SchemaInit ==
    /\ layout \in Layouts
    /\ registered = <<>>
    /\ phase = "building"

SchemaNext == NewCollection \/ Build

SchemaSpec == SchemaInit /\ [][SchemaNext]_schemaVars

-----------------------------------------------------------------------------
(* Properties.                                                             *)

\* NewKeeper returns a keeper: the collections it registers have pairwise
\* disjoint key ranges, so sb.Build() succeeds and no panic is raised.
NewKeeperSucceeds == phase # "panicked"

=============================================================================
