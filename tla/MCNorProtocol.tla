---------------------------- MODULE MCNorProtocol ----------------------------
(***************************************************************************)
(* A NOR with a few observed bytes: every address of the command protocol, *)
(* a data address, every command value, and data with the observed bit     *)
(* clear (0x00) and set (0xff).  0x5555 and 0xd555 are different pages of  *)
(* the map, of which a bank switch may take the NOR away.                  *)
(***************************************************************************)
EXTENDS NorProtocol, FiniteSets

MCModels == {"nc2000", "nc3000", "pc1000"}
MCBanks == {0, 1, 128}
MCRoaBbs == {0, 128}
MCRambVol == {0}
MCZp == {0}

\* An address of the window whose sector holds another observed byte.
DataAddress == 32768 + (AddrAAAA % 8192) + 1

MCWrites == ({21845} \X ({UnlockAA, MassErase} \cup CommandValues))
            \cup {<<54613, UnlockAA>>, <<AddrAAAA, Unlock55>>}
            \cup ({DataAddress} \X {0, 255, SectorErase, ResetF0})

\* A chip whose observed bytes in bank 1 are all programmed.
MCImages == {{c \in NorCells : c[2] = 1}}

\* Bound: bytes programmed beyond those of the image.
FewPrograms == Cardinality({c \in zeros : c[2] # 1}) <= 1
=============================================================================
