----------------------------- MODULE MCFtpSync -----------------------------
(* Instances of FtpSync for TLC: one file, or one in each of two           *)
(* directories, with two versions of each.                                 *)
EXTENDS FtpSync

TwoDirectories == << {"a"}, {"b"} >>
OneFile == << {"a"} >>

\* Each version has a size of its own, or the server reports none.
OwnSizes == [t \in Times |-> t]
NoSizes == [t \in Times |-> 0]

Resync == {TRUE}
Either == BOOLEAN
NoGlobs == {}
LastGlobbed == {2}
=============================================================================
