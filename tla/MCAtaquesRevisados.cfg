CONSTANTS
  Grupo = {ssh}
  SinShell = {}
  Hueco = 1
  Muestra <- MCMuestra
  Retraso = 0
  Minima = 1
  RetEventos = 0
  RetEpisodios = 0
  MaxReloj = 1
  MaxEventos = 2
  MaxCaidas = 1
  MaxRevisiones = 1
SPECIFICATION SpecVivaR
PROPERTIES
  ReinicioRehace
