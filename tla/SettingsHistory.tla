-------------------------- MODULE SettingsHistory --------------------------
(***************************************************************************)
(* What the settings layer promises to a reader of a card: each card has a *)
(* history of released settings snapshots, the history only grows, every   *)
(* release names the one it replaces, and from the first release on there  *)
(* is exactly one current release.                                         *)
(*                                                                         *)
(* This is the abstract specification.  SettingsPublish, which models the  *)
(* tables and the publish transaction, implements it.                      *)
(***************************************************************************)

CONSTANTS
  Cards,        \* executive cards
  Snapshots,    \* settings snapshots, each identified with its hash
  VersionIds,   \* primary keys of released versions
  NoVersion,    \* no version (SQL NULL)
  NoRelease     \* the value of release[v] when v was never released

VARIABLES
  head,         \* head[c]: the current release of card c, or NoVersion
  release       \* release[v]: the card and snapshot of v and what it replaced

vars == <<head, release>>

Init ==
  /\ head = [c \in Cards |-> NoVersion]
  /\ release = [v \in VersionIds |-> NoRelease]

(***************************************************************************)
(* A release takes effect at once and replaces the current one.            *)
(***************************************************************************)
Publish(c, v) ==
  /\ release[v] = NoRelease
  /\ head' = [head EXCEPT ![c] = v]
  /\ \E s \in Snapshots :
       release' = [release EXCEPT ![v] = [card |-> c, snap |-> s, replaces |-> head[c]]]

Next == \E c \in Cards, v \in VersionIds : Publish(c, v)

Spec == Init /\ [][Next]_vars

=============================================================================
