--------------------------- MODULE MCGuildStorage ---------------------------
(* Small instances of the storage of a guild.                              *)
EXTENDS GuildStorage
=============================================================================
