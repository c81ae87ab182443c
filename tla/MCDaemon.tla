------------------------------- MODULE MCDaemon -------------------------------
(* Small instances of Daemon for TLC. *)
EXTENDS Daemon, TLC

MCPublishers == {Fanout}
MCSubscribers == Viewers
MCMaxPublish == Cardinality(Handlers)

=============================================================================
