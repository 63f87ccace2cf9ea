CONSTANTS
  Grupo = {ssh}
  SinShell = {}
  Hueco = 1
  Muestra <- MCEscalada
  Retraso = 0
  Minima = 1
  RetEventos = 0
  RetEpisodios = 0
  MaxReloj = 2
  MaxEventos = 2
  MaxCaidas = 1
SPECIFICATION SpecViva
PROPERTIES
  TodoSeAvisa
  TodoSeAgrupa
