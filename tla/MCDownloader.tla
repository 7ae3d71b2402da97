----------------------------- MODULE MCDownloader -----------------------------
(* Instances of Downloader for TLC.                                        *)
EXTENDS Downloader

(* An answer may begin with other parameters, repeat one, or say the       *)
(* length of what it masks before the length of the file.                  *)
MCFileSizes == 1..7
MCLayouts == {<<"totalsize", "X-enclen">>, <<"X-enclen", "seq", "totalsize">>}

MCShortFileSizes == 1..6
MCShortLayouts == {<<"totalsize", "X-enclen">>}
=============================================================================
