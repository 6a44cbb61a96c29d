--------------------------- MODULE MCImageCommands --------------------------
(***************************************************************************)
(* An instance of ImageCommands for TLC: payloads and ranges of the image  *)
(* audit over eight addresses in two banks.                                *)
(***************************************************************************)
EXTENDS ImageCommands, Sequences

MCPayloads == {<<0>>, <<1>>, <<0, 0>>}

MCForbidden == {<<3, 4>>}

MCAllowlist == {<<0, 4>>, <<5, 8>>}
=============================================================================
