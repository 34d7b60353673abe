-------------------------- MODULE MCServerSelection --------------------------
(* A small instance of ServerSelection for TLC. *)
EXTENDS ServerSelection

Setting(n, ids, local) == [servers |-> n, ids |-> ids, local |-> local]

\* One to four servers with an ID each, an ID too few, and "local" alone and among others.
MCSettings ==
  {Setting(1, 1, {}), Setting(3, 3, {}), Setting(4, 4, {}), Setting(3, 2, {}),
   Setting(1, 1, {1}), Setting(2, 1, {1}), Setting(3, 3, {2})}

\* Every remainder that four servers give.
MCRandoms == -3 .. 3
=============================================================================
