-------------------------- MODULE MCTextureConversion --------------------------
\* The loaders are interchangeable; two extensions show a preferred and another source.
EXTENDS TextureConversion, TLC

ExtsInUse == <<"png", "tga">>
Symmetry == Permutations(Loaders)
=============================================================================
