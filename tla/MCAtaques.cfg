CONSTANTS
  Grupo = {ssh}
  SinShell = {}
  Hueco = 1
  Muestra <- MCMuestra
  Retraso = 1
  Minima = 2
  RetEventos = 1
  RetEpisodios = 2
  MaxReloj = 3
  MaxEventos = 3
  MaxCaidas = 1
SPECIFICATION Spec
INVARIANTS
  Inductivo
  Cobertura
  MarcaSoloLoEnviado
PROPERTIES
  FilasNoEncogen
  NoRepiteAviso
