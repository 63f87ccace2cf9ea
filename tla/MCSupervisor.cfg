CONSTANTS
  Trampa = {"http", "redis"}
  Disponibles <- MCDisponibles
  Direccion = {p80, p6379}
  Nada = nada
  Tarea = {t1, t2, t3}
  Configuraciones <- MCConfiguraciones
  Ajenas = {p80}
  MaxCambios = 2
  PausaLarga = TRUE
SPECIFICATION SpecViva
INVARIANTS
  Inductivo
  SinHuerfanas
  NingunPuertoAbierto
PROPERTIES
  Converge
CHECK_DEADLOCK FALSE
