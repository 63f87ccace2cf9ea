SPECIFICATION SpecLazos
CONSTANTS
    Forma = {f, g}
    Nada = nada
    Idiomas = {es, en}
    Tanda = 1
    TandaPanel = 1
    MaxId = 2
    MaxCambios = 1
    MaxParos = 1
    Ataque = {x, y}
    y = y
    Otro = {}
    Lenguas = {es, en}
    Explicados = {y}
    ConCebo = {y}
    MaxGuion = 2
    MaxVeces = 1
    Rango = {d7}
    Calculo = {k1, k2}
    Frescura = 1
    MaxDatos = 2
    MaxErrores = 1
    Problema = {disco}
    Hora = 0
    Dia = 2
    Cadencia = 3
    Conservar = 1
    MaxFallos = 1
    MaxVaivenes = 3
INVARIANTS
    TiposDeLosLazos
    MemoriaFiel
PROPERTIES
    TodoSeGlosa
    TodoLoPedidoSeResuelve
    LaCacheSeRefresca
    QuedaLaBuena
    TodoSeCuenta
CHECK_DEADLOCK FALSE
